---- MODULE Spec2Model ----
(***************************************************************************)
(* State-machine model of the structured logger of the beto repository     *)
(* (package logger, src/pkg/config/config.go lines 299-697).               *)
(*                                                                         *)
(* The heap holds Logger structs and fields maps as separate objects, so   *)
(* that sharing of a map between two loggers is expressible.  Every API    *)
(* call is executed by a thread in the steps the code takes; shared reads  *)
(* and writes of different threads interleave.                             *)
(***************************************************************************)
EXTENDS Integers, Sequences, FiniteSets, TLC

(* ------------------------------------------------------------------ *)
(* Bounds of the model                                                  *)
(* ------------------------------------------------------------------ *)
\* calls (API operations started) in one behaviour
MaxCalls == 3
\* Logger structs on the heap, the package default included
MaxLoggers == 3
\* largest Config.CallerSkip drawn
MaxSkip == 1
\* requests served through the middleware in one behaviour
MaxRequests == 2
\* connections with a request in flight at the http.Server
MaxConns == 2

Threads == {"t1", "t2"}

(* ------------------------------------------------------------------ *)
(* LogLevel, LogFormat                                                  *)
(* ------------------------------------------------------------------ *)
DEBUG == 0
INFO == 1
WARN == 2
ERROR == 3
FATAL == 4

\* LogLevel is an int: SetLevel accepts values outside the five names
LevelValues == DEBUG..(FATAL + 1)

TextFormat == 0
JSONFormat == 1

\* LogLevel.String
LevelString(l) ==
  CASE l = DEBUG -> "DEBUG"
    [] l = INFO -> "INFO"
    [] l = WARN -> "WARN"
    [] l = ERROR -> "ERROR"
    [] l = FATAL -> "FATAL"
    [] OTHER -> "UNKNOWN"

(* ------------------------------------------------------------------ *)
(* Text: a string is a sequence of one-character strings                *)
(* ------------------------------------------------------------------ *)
LowerChars == <<"a","b","d","e","f","g","i","j","l","n","o","p","r","s","t","u","w","x">>
UpperChars == <<"A","B","D","E","F","G","I","J","L","N","O","P","R","S","T","U","W","X">>

RECURSIVE IndexOf(_, _, _)
IndexOf(seq, c, i) ==
  IF i > Len(seq) THEN 0
  ELSE IF seq[i] = c THEN i ELSE IndexOf(seq, c, i + 1)

\* strings.ToUpper
ToUpper(s) ==
  [i \in DOMAIN s |->
     LET j == IndexOf(LowerChars, s[i], 1) IN IF j = 0 THEN s[i] ELSE UpperChars[j]]

\* strings.ToLower
ToLower(s) ==
  [i \in DOMAIN s |->
     LET j == IndexOf(UpperChars, s[i], 1) IN IF j = 0 THEN s[i] ELSE LowerChars[j]]

\* mutant of parseLogLevel: the text is compared as given
parseLogLevelExact(level) ==
  CASE level = <<"D","E","B","U","G">> -> DEBUG
    [] level = <<"I","N","F","O">> -> INFO
    [] level = <<"W","A","R","N">> \/ level = <<"W","A","R","N","I","N","G">> -> WARN
    [] level = <<"E","R","R","O","R">> -> ERROR
    [] level = <<"F","A","T","A","L">> -> FATAL
    [] OTHER -> INFO

\* parseLogLevel
parseLogLevel(level) ==
  LET u == ToUpper(level) IN
  CASE u = <<"D","E","B","U","G">> -> DEBUG
    [] u = <<"I","N","F","O">> -> INFO
    [] u = <<"W","A","R","N">> \/ u = <<"W","A","R","N","I","N","G">> -> WARN
    [] u = <<"E","R","R","O","R">> -> ERROR
    [] u = <<"F","A","T","A","L">> -> FATAL
    [] OTHER -> INFO

\* parseLogFormat
parseLogFormat(format) ==
  LET u == ToLower(format) IN
  CASE u = <<"j","s","o","n">> -> JSONFormat
    [] u = <<"t","e","x","t">> \/ u = <<"p","l","a","i","n">> -> TextFormat
    [] OTHER -> JSONFormat

(* ------------------------------------------------------------------ *)
(* Inputs                                                               *)
(* ------------------------------------------------------------------ *)
\* io.Writer values; Nil is an unset Config.Output
Nil == "nil"
Stdout == "stdout"
Buf == "buf"
\* a writer whose Write returns an error every time (a closed file, a dead socket)
Broken == "broken"
Sinks == {Stdout, Buf, Broken}

\* the error a Write on the sink returns
WriteError(s) == IF s = Broken THEN "EIO" ELSE "nil"

FieldKeys == {"a", "request_id"}
\* the line terminator log appends, line 491; also a line break inside a text
Newline == "\n"

\* interface{} values: ints, strings, and a channel, which encoding/json rejects
IntVal(n) == [kind |-> "int", n |-> n, s |-> ""]
StrVal(s) == [kind |-> "string", n |-> 0, s |-> s]
ChanVal == [kind |-> "chan", n |-> 0, s |-> ""]

\* fmt's %v of a value
FormatValue(v) ==
  CASE v.kind = "int" -> ToString(v.n)
    [] v.kind = "string" -> v.s
    [] OTHER -> "0xc000"

\* the two keys WithContext looks up
ContextKeys == {"request_id", "user_id"}

EmptyMap == [k \in {} |-> 0]

\* m[k] = v on a Go map
Put(m, k, v) == [x \in (DOMAIN m) \cup {k} |-> IF x = k THEN v ELSE m[x]]

(* ------------------------------------------------------------------ *)
(* Call stacks and message templates                                    *)
(* ------------------------------------------------------------------ *)
\* a stack frame: the source file as path segments, and a line
StackFrame(file, line) == [file |-> file, line |-> line]

LoggerFile == <<"pkg", "config", "config.go">>
GoExit == StackFrame(<<"runtime", "asm.s">>, 1)
UserFn == StackFrame(<<"cmd", "svc", "main.go">>, 2)

\* a message template: literal pieces and printf verbs
Verbs == {"%d", "%s", "%v"}

RECURSIVE SprintfFrom(_, _, _)
SprintfFrom(msg, args, i) ==
  IF i > Len(msg)
    THEN (IF args = <<>> THEN <<>> ELSE <<"%!(EXTRA)">>)
    ELSE IF msg[i] \in Verbs
      THEN IF args = <<>>
             THEN <<"%!(MISSING)">> \o SprintfFrom(msg, args, i + 1)
             ELSE <<FormatValue(Head(args))>> \o SprintfFrom(msg, Tail(args), i + 1)
      ELSE <<msg[i]>> \o SprintfFrom(msg, args, i + 1)

\* fmt.Sprintf
Sprintf(msg, args) == SprintfFrom(msg, args, 1)

(* ------------------------------------------------------------------ *)
(* State                                                                *)
(* ------------------------------------------------------------------ *)
VARIABLES
  loggers,    \* heap of Logger structs: level, format, output, fields (a map id), callerSkip
  maps,       \* heap of map[string]interface{} objects
  sinks,      \* per io.Writer, the Writes it received in order: the bytes, and the
              \* Logger and the call that wrote them
  pc,         \* per thread, its position in the call it executes
  frame,      \* per thread, the locals of that call
  published,  \* loggers returned to callers
  exited,     \* os.Exit was called
  exitCode,
  ncalls,     \* history: calls started so far
  origin,     \* history: per Logger, the call that made it
  lastEmit,   \* history: per thread, the emission call it completed last
  http,       \* per thread, the request the middleware closure is serving
  lastReq,    \* history: per thread, the request it served last
  defaultLogger, \* the package variable defaultLogger: the Logger in the global slot
  installs,   \* history: the Loggers SetGlobalLogger was called with, in call order
  result,     \* history: per thread, what the last global or adapter call saw and returned
  emitted,    \* history: the emission calls that passed the threshold check, in call order
  parse,      \* a text handed to parseLogLevel and parseLogFormat, and their results
  app,        \* main.go: the App struct, its http.Server, and the main function
  web         \* main.go: the request App.Router is serving

\* the global slot and the history of its use
globalVars == <<defaultLogger, installs, result>>

\* the state of main.go and of the parsers' callers
appVars == <<parse, app, web>>

vars ==
  <<loggers, maps, sinks, pc, frame, published, exited, exitCode, ncalls, origin, lastEmit,
    http, lastReq, defaultLogger, installs, result, emitted, parse, app, web>>

NoEntry == [Timestamp |-> "", Level |-> "", Message |-> <<>>, Caller |-> <<>>, Fields |-> 0]

NoMark == [s \in Sinks |-> 0]

NoFrame ==
  [seq |-> 0, op |-> "none", outer |-> "none", recv |-> 0, adds |-> EmptyMap, before |-> EmptyMap, newFields |-> 0,
   newLogger |-> 0, copied |-> {}, done |-> {}, level |-> -1, thr |-> -1, thr2 |-> -1,
   message |-> <<>>, ustack |-> <<>>, entry |-> NoEntry, mark |-> NoMark]

NoCall ==
  [seq |-> 0, op |-> "none", recv |-> 0, level |-> -1, thr |-> -1, thr2 |-> -1,
   depth |-> 0, skip |-> 0, status |-> "none", written |-> [s \in Sinks |-> <<>>]]

\* the closure of HTTPLogMiddleware serving one request: the wrapper's statusCode,
\* what is left of the handler, and the history of the request
NoRequest ==
  [seq |-> 0, logger |-> 0, req |-> <<>>, script |-> <<>>, flusher |-> FALSE, rest |-> <<>>,
   statusCode |-> 0, runs |-> 0, handlerReq |-> <<>>, performed |-> <<>>, reached |-> <<>>,
   during |-> [s \in Sinks |-> <<>>], written |-> [s \in Sinks |-> <<>>],
   before |-> EmptyMap, thr |-> -1, mark |-> NoMark, outcome |-> "none"]

\* the state of package logger, which main.go never touches
logVars ==
  <<loggers, maps, sinks, pc, frame, published, exited, exitCode, ncalls, origin, lastEmit,
    http, lastReq, defaultLogger, installs, result, emitted, parse>>

\* main.go before main or a test has run: no App, no goroutine started.
\* server is App.Server and the state of the http.Server it points to; log is
\* what App.Logger printed; start and shut are the positions of the calls of
\* Start and Shutdown with the errors they returned; conns counts connections
\* with a request in flight; ctx is the context handed to Shutdown; exit is the
\* exit status of the process, -1 while it runs; harness is who drives the App
\* (func main or TestAppStartAndShutdown) and failed what the test reported.
NoApp ==
  [made |-> FALSE, server |-> "unset", log |-> <<>>, requests |-> 0, conns |-> 0,
   start |-> "none", startErr |-> "none", shut |-> "none", shutErr |-> "none",
   shutAt |-> "none", polled |-> -1, ctx |-> "none", main |-> "none", exit |-> -1,
   harness |-> "none", failed |-> {}]

\* a request App.Router is not serving yet: how far it got in the chain, what
\* the response holds, and how often each link of the chain was entered
NoExchange ==
  [stage |-> "idle", method |-> "", path |-> "", headers |-> {}, status |-> 0,
   by |-> "none", cors |-> 0, logging |-> 0, handler |-> 0, body |-> "", seq |-> 0,
   lines |-> 0]

NoWeb == [t \in Threads |-> NoExchange]

\* the fields mapping of logger l
Fields(l) == maps[loggers[l].fields]

\* per sink, what was written to it since the mark
Delta(s, mark) == [k \in Sinks |-> SubSeq(s[k], mark[k] + 1, Len(s[k]))]

Mark(s) == [k \in Sinks |-> Len(s[k])]

\* New, lines 378-392, given the id of the map make() returned
NewLogger(config, mapId) ==
  [level |-> parseLogLevel(config.Level),
   format |-> parseLogFormat(config.Format),
   output |-> IF config.Output = Nil THEN Stdout ELSE config.Output,
   fields |-> mapId,
   callerSkip |-> config.CallerSkip]

\* NewDefault
DefaultConfig ==
  [Level |-> <<"i","n","f","o">>, Format |-> <<"j","s","o","n">>,
   Output |-> Stdout, CallerSkip |-> 0]

\* seq: the number of the making call; ret: the calls started when it returned
RootOrigin ==
  [seq |-> 0, ret |-> 0, op |-> "New", src |-> 0, adds |-> EmptyMap, before |-> EmptyMap]

\* what a global function or the adapter saw and returned
NoResult == [seq |-> 0, op |-> "none", slot |-> 0, logger |-> 0, p |-> "", n |-> -1, err |-> "none"]

NoParse == [text |-> <<>>, level |-> -1, format |-> -1]

\* the package variable holds the Logger NewDefault made; nothing else has run
InitRest ==
  /\ defaultLogger = 1
  /\ installs = <<>>
  /\ result = [t \in Threads |-> NoResult]
  /\ emitted = <<>>

\* package logger after initialisation: var defaultLogger = NewDefault()
InitLogger ==
  /\ loggers = <<NewLogger(DefaultConfig, 1)>>
  /\ maps = <<EmptyMap>>
  /\ sinks = [s \in Sinks |-> <<>>]
  /\ pc = [t \in Threads |-> "idle"]
  /\ frame = [t \in Threads |-> NoFrame]
  /\ published = {1}
  /\ exited = FALSE
  /\ exitCode = 0
  /\ ncalls = 0
  /\ origin = <<RootOrigin>>
  /\ lastEmit = [t \in Threads |-> NoCall]
  /\ http = [t \in Threads |-> NoRequest]
  /\ lastReq = [t \in Threads |-> NoRequest]
  /\ InitRest

\* no text has been parsed, main.go has not run
InitIdle ==
  /\ parse = NoParse
  /\ app = NoApp
  /\ web = NoWeb

\* the process after package initialisation
Init == InitLogger /\ InitIdle

\* a thread may start a call
CanCall(t) == ~exited /\ pc[t] = "idle" /\ ncalls < MaxCalls

\* the heap bound leaves room for one more Logger
HeapRoom == Len(loggers) + Cardinality({u \in Threads : pc[u] = "clone_copy"}) < MaxLoggers

(* ------------------------------------------------------------------ *)
(* Construction                                                         *)
(* ------------------------------------------------------------------ *)
New(t, config) ==
  /\ CanCall(t)
  /\ HeapRoom
  /\ maps' = Append(maps, EmptyMap)
  /\ loggers' = Append(loggers, NewLogger(config, Len(maps) + 1))
  /\ origin' = Append(origin, [RootOrigin EXCEPT !.seq = ncalls + 1, !.ret = ncalls + 1])
  /\ published' = published \cup {Len(loggers) + 1}
  /\ ncalls' = ncalls + 1
  /\ UNCHANGED <<globalVars, appVars, emitted, sinks, pc, frame, exited, exitCode, lastEmit, http, lastReq>>

(* ------------------------------------------------------------------ *)
(* Derivation: clone, then the additions                                *)
(* ------------------------------------------------------------------ *)
\* mutant of cloneAlloc: newFields := l.fields, no copy
cloneAllocAlias(t, l, op, adds, seq) ==
  /\ maps' = maps
  /\ frame' = [frame EXCEPT ![t] = [NoFrame EXCEPT !.seq = seq, !.op = op, !.recv = l,
                                                   !.adds = adds, !.before = Fields(l),
                                                   !.newFields = loggers[l].fields,
                                                   !.mark = Mark(sinks)]]
  /\ pc' = [pc EXCEPT ![t] = "clone_copy"]

\* clone, line 545: newFields := make(map[string]interface{})
cloneAlloc(t, l, op, adds, seq) ==
  /\ maps' = Append(maps, EmptyMap)
  /\ frame' = [frame EXCEPT ![t] = [NoFrame EXCEPT !.seq = seq, !.op = op, !.recv = l,
                                                   !.adds = adds, !.before = Fields(l),
                                                   !.newFields = Len(maps) + 1,
                                                   !.mark = Mark(sinks)]]
  /\ pc' = [pc EXCEPT ![t] = "clone_copy"]

\* entry of WithField, WithFields, WithContext: l.clone() begins
deriveCall(t, l, op, adds) ==
  /\ CanCall(t)
  /\ l \in published
  /\ HeapRoom
  /\ cloneAlloc(t, l, op, adds, ncalls + 1)
  /\ ncalls' = ncalls + 1
  /\ UNCHANGED <<globalVars, appVars, emitted, loggers, sinks, published, exited, exitCode, origin, lastEmit, http, lastReq>>

WithField(t, l, key, value) == deriveCall(t, l, "WithField", Put(EmptyMap, key, value))

WithFields(t, l, fields) == deriveCall(t, l, "WithFields", fields)

\* ctx.Value(k) is nil for a key the context does not carry
WithContext(t, l, ctx) ==
  deriveCall(t, l, "WithContext",
             [k \in {x \in ContextKeys : x \in DOMAIN ctx} |-> ctx[k]])

\* clone, lines 546-548: one iteration of the copy loop
cloneCopy(t) ==
  /\ ~exited
  /\ pc[t] = "clone_copy"
  /\ LET f == frame[t]
         src == loggers[f.recv].fields
     IN \E k \in (DOMAIN maps[src]) \ f.copied :
          /\ maps' = [maps EXCEPT ![f.newFields] = Put(@, k, maps[src][k])]
          /\ frame' = [frame EXCEPT ![t].copied = @ \cup {k}]
  /\ UNCHANGED <<globalVars, appVars, emitted, loggers, sinks, pc, published, exited, exitCode, ncalls, origin,
                 lastEmit, http, lastReq>>

\* mutant of cloneReturn: the new Logger is given l.fields, not newFields
cloneReturnShared(t) ==
  /\ ~exited
  /\ pc[t] = "clone_copy"
  /\ LET f == frame[t]
         l == loggers[f.recv]
     IN /\ (DOMAIN maps[l.fields]) \ f.copied = {}
        /\ loggers' = Append(loggers, [level |-> l.level, format |-> l.format,
                                       output |-> l.output, fields |-> l.fields,
                                       callerSkip |-> l.callerSkip])
        /\ origin' = Append(origin, [seq |-> f.seq, ret |-> 0, op |-> f.op, src |-> f.recv,
                                     adds |-> f.adds,
                                     before |-> f.before])
        /\ frame' = [frame EXCEPT ![t].newLogger = Len(loggers) + 1]
  /\ pc' = [pc EXCEPT ![t] = "set"]
  /\ UNCHANGED <<globalVars, appVars, emitted, maps, sinks, published, exited, exitCode, ncalls, lastEmit, http, lastReq>>

\* clone, lines 550-556: the loop is over, the new Logger is allocated
cloneReturn(t) ==
  /\ ~exited
  /\ pc[t] = "clone_copy"
  /\ LET f == frame[t]
         l == loggers[f.recv]
     IN /\ (DOMAIN maps[l.fields]) \ f.copied = {}
        /\ loggers' = Append(loggers, [level |-> l.level, format |-> l.format,
                                       output |-> l.output, fields |-> f.newFields,
                                       callerSkip |-> l.callerSkip])
        /\ origin' = Append(origin, [seq |-> f.seq, ret |-> 0, op |-> f.op, src |-> f.recv,
                                     adds |-> f.adds,
                                     before |-> f.before])
        /\ frame' = [frame EXCEPT ![t].newLogger = Len(loggers) + 1]
  /\ pc' = [pc EXCEPT ![t] = "set"]
  /\ UNCHANGED <<globalVars, appVars, emitted, maps, sinks, published, exited, exitCode, ncalls, lastEmit, http, lastReq>>

\* mutant of setField: a key the clone already holds keeps its value
setFieldKeepOld(t) ==
  /\ ~exited
  /\ pc[t] = "set"
  /\ LET f == frame[t]
         m == loggers[f.newLogger].fields
     IN \E k \in (DOMAIN f.adds) \ f.done :
          /\ maps' = [maps EXCEPT ![m] = IF k \in DOMAIN @ THEN @ ELSE Put(@, k, f.adds[k])]
          /\ frame' = [frame EXCEPT ![t].done = @ \cup {k}]
  /\ UNCHANGED <<globalVars, appVars, emitted, loggers, sinks, pc, published, exited, exitCode, ncalls, origin,
                 lastEmit, http, lastReq>>

\* newLogger.fields[k] = v, lines 406, 414, 425, 430
setField(t) ==
  /\ ~exited
  /\ pc[t] = "set"
  /\ LET f == frame[t]
         m == loggers[f.newLogger].fields
     IN \E k \in (DOMAIN f.adds) \ f.done :
          /\ maps' = [maps EXCEPT ![m] = Put(@, k, f.adds[k])]
          /\ frame' = [frame EXCEPT ![t].done = @ \cup {k}]
  /\ UNCHANGED <<globalVars, appVars, emitted, loggers, sinks, pc, published, exited, exitCode, ncalls, origin,
                 lastEmit, http, lastReq>>

\* return newLogger
deriveReturn(t) ==
  /\ ~exited
  /\ pc[t] = "set"
  /\ frame[t].op \in {"WithField", "WithFields", "WithContext"}
  /\ (DOMAIN frame[t].adds) \ frame[t].done = {}
  /\ published' = published \cup {frame[t].newLogger}
  /\ origin' = [origin EXCEPT ![frame[t].newLogger].ret = ncalls]
  /\ pc' = [pc EXCEPT ![t] = "idle"]
  /\ frame' = [frame EXCEPT ![t] = NoFrame]
  /\ UNCHANGED <<globalVars, appVars, emitted, loggers, maps, sinks, exited, exitCode, ncalls, lastEmit, http, lastReq>>

(* ------------------------------------------------------------------ *)
(* Emission                                                             *)
(* ------------------------------------------------------------------ *)
\* encoding/json: UnsupportedTypeError for a channel
Marshalable(v) == v.kind # "chan"

\* getCaller: runtime.Caller(3 + l.callerSkip) on the stack of the call
getCaller(callerSkip, stack) ==
  LET n == 3 + callerSkip IN
  IF n + 1 > Len(stack) \/ n < 0
    THEN <<>>
    ELSE LET fr == stack[n + 1]
             parts == fr.file
             file == IF Len(parts) > 0 THEN parts[Len(parts)] ELSE ""
         IN <<file, ":", ToString(fr.line)>>

\* the stack getCaller sees when the method at `line` was called from code with stack ustack
StackAt(line, ustack) ==
  <<StackFrame(LoggerFile, 529), StackFrame(LoggerFile, 485), StackFrame(LoggerFile, line)>>
    \o ustack

\* the text rendering, lines 504-521; the order of the k=v pairs is the map's
\* iteration order, which the pair set leaves open
TextLine(entry, fields) ==
  [enc |-> "text",
   parts |-> <<<<entry.Timestamp>>, <<"[", entry.Level, "]">>>>
             \o (IF entry.Caller # <<>> THEN <<<<"(">> \o entry.Caller \o <<")">>>> ELSE <<>>)
             \o <<entry.Message>>
             \o (IF DOMAIN fields # {}
                   THEN <<<<"{", {<<k, "=", FormatValue(fields[k])>> : k \in DOMAIN fields}, "}">>>>
                   ELSE <<>>)]

\* json.Marshal(entry) with the omitempty tags of LogEntry
JSONLine(entry, fields) ==
  LET keys == {"timestamp", "level", "message"}
                \cup (IF entry.Caller # <<>> THEN {"caller"} ELSE {})
                \cup (IF DOMAIN fields # {} THEN {"fields"} ELSE {})
  IN [enc |-> "json",
      obj |-> [k \in keys |->
                 CASE k = "timestamp" -> <<entry.Timestamp>>
                   [] k = "level" -> <<entry.Level>>
                   [] k = "message" -> entry.Message
                   [] k = "caller" -> entry.Caller
                   [] k = "fields" -> fields]]

\* mutant of formatEntry: a failed json.Marshal yields an empty line
formatEntryNoFallback(format, entry, fields) ==
  CASE format = JSONFormat ->
         IF \A k \in DOMAIN fields : Marshalable(fields[k])
           THEN JSONLine(entry, fields)
           ELSE [enc |-> "raw", parts |-> <<<<>>>>]
    [] format = TextFormat -> TextLine(entry, fields)
    [] OTHER -> [enc |-> "raw", parts |-> <<entry.Message>>]

\* formatEntry
formatEntry(format, entry, fields) ==
  CASE format = JSONFormat ->
         IF \A k \in DOMAIN fields : Marshalable(fields[k])
           THEN JSONLine(entry, fields)
           ELSE TextLine(entry, fields)
    [] format = TextFormat -> TextLine(entry, fields)
    [] OTHER -> [enc |-> "raw", parts |-> <<entry.Message>>]

\* mutant of Dropped: the boundary level is dropped too
DroppedAtThreshold(level, threshold) == level <= threshold

\* the threshold check of log, line 465
Dropped(level, threshold) == level < threshold

\* mutant of WantsCaller: the DEBUG threshold is forgotten
WantsCallerErrorOnly(level, threshold) == level >= ERROR

\* the caller condition of log, line 484
WantsCaller(level, threshold) == level >= ERROR \/ threshold = DEBUG

\* what follows log in the emission method: Fatal goes on to os.Exit(1), Info called
\* by the middleware returns into its closure
AfterLog(op, outer) ==
  IF op = "Fatal" THEN "exit"
  ELSE IF outer = "http" THEN "http_ret"
  ELSE IF outer = "stdlog" THEN "write_ret"
  ELSE "idle"

\* the record of a call that ends with frame f and sinks s
Summary(f, s, status) ==
  [NoCall EXCEPT !.seq = f.seq, !.op = f.op, !.recv = f.recv, !.level = f.level, !.thr = f.thr,
                 !.thr2 = f.thr2, !.depth = Len(f.ustack) - 3,
                 !.skip = loggers[f.recv].callerSkip, !.status = status,
                 !.written = Delta(s, f.mark)]

\* an emission method up to the threshold check of log and the message
logStart(t, l, level, op, outer, line, msg, args, ustack, seq) ==
  LET f == [NoFrame EXCEPT !.seq = seq, !.op = op, !.outer = outer, !.recv = l,
                           !.level = level, !.thr = loggers[l].level,
                           !.message = IF Len(args) > 0 THEN Sprintf(msg, args) ELSE msg,
                           !.ustack = StackAt(line, ustack),
                           !.mark = Mark(sinks)]
  IN IF Dropped(level, loggers[l].level)
       THEN /\ pc' = [pc EXCEPT ![t] = AfterLog(op, outer)]
            /\ frame' = [frame EXCEPT ![t] = IF op = "Fatal" THEN f ELSE NoFrame]
            /\ lastEmit' = [lastEmit EXCEPT ![t] =
                              IF op = "Fatal" THEN @ ELSE Summary(f, sinks, "returned")]
            /\ UNCHANGED emitted
       ELSE /\ pc' = [pc EXCEPT ![t] = "log_entry"]
            /\ frame' = [frame EXCEPT ![t] = f]
            /\ emitted' = Append(emitted, [seq |-> seq, logger |-> l, level |-> level,
                                           message |-> f.message])
            /\ UNCHANGED lastEmit

\* an emission method called by user code
logCall(t, l, level, op, line, msg, args, ustack) ==
  /\ CanCall(t)
  /\ l \in published
  /\ ncalls' = ncalls + 1
  /\ logStart(t, l, level, op, "none", line, msg, args, ustack, ncalls + 1)
  /\ UNCHANGED <<globalVars, appVars, loggers, maps, sinks, published, exited, exitCode, origin, http, lastReq>>

Debug(t, l, msg, args, ustack) == logCall(t, l, DEBUG, "Debug", 438, msg, args, ustack)

Info(t, l, msg, args, ustack) == logCall(t, l, INFO, "Info", 443, msg, args, ustack)

Warn(t, l, msg, args, ustack) == logCall(t, l, WARN, "Warn", 448, msg, args, ustack)

Error(t, l, msg, args, ustack) == logCall(t, l, ERROR, "Error", 453, msg, args, ustack)

Fatal(t, l, msg, args, ustack) == logCall(t, l, FATAL, "Fatal", 458, msg, args, ustack)

\* log, lines 476-488: the entry is built, with the caller when wanted
logEntry(t) ==
  /\ ~exited
  /\ pc[t] = "log_entry"
  /\ LET f == frame[t]
         l == loggers[f.recv]
     IN frame' = [frame EXCEPT ![t].entry =
                    [Timestamp |-> "ts", Level |-> LevelString(f.level),
                     Message |-> f.message, Fields |-> l.fields,
                     Caller |-> IF WantsCaller(f.level, l.level)
                                  THEN getCaller(l.callerSkip, f.ustack) ELSE <<>>],
                                 ![t].thr2 = l.level]
  /\ pc' = [pc EXCEPT ![t] = "log_write"]
  /\ UNCHANGED <<globalVars, appVars, emitted, loggers, maps, sinks, published, exited, exitCode, ncalls, origin,
                 lastEmit, http, lastReq>>

\* mutant of logWrite: the line and its terminator are two Writes
logWriteSplit(t) ==
  /\ ~exited
  /\ pc[t] = "log_write"
  /\ LET f == frame[t]
         l == loggers[f.recv]
         line == formatEntry(l.format, f.entry, maps[f.entry.Fields])
     IN IF f.done = {}
          THEN /\ sinks' = [sinks EXCEPT ![l.output] =
                              Append(@, [logger |-> f.recv, seq |-> f.seq, bytes |-> <<line>>])]
               /\ frame' = [frame EXCEPT ![t].done = {"line"}]
               /\ UNCHANGED <<pc, lastEmit>>
          ELSE /\ sinks' = [sinks EXCEPT ![l.output] =
                              Append(@, [logger |-> f.recv, seq |-> f.seq,
                                         bytes |-> <<[enc |-> "raw", parts |-> <<<<"\n">>>>]>>])]
               /\ pc' = [pc EXCEPT ![t] = AfterLog(f.op, f.outer)]
               /\ frame' = [frame EXCEPT ![t] = IF f.op = "Fatal" THEN f ELSE NoFrame]
               /\ lastEmit' = [lastEmit EXCEPT ![t] =
                                 IF f.op = "Fatal" THEN @ ELSE Summary(f, sinks', "returned")]
  /\ UNCHANGED <<globalVars, appVars, emitted, loggers, maps, published, exited, exitCode, ncalls, origin, http, lastReq>>

\* mutant of logWrite: the Write lands in front of what the sink holds
logWriteFirst(t) ==
  /\ ~exited
  /\ pc[t] = "log_write"
  /\ LET f == frame[t]
         l == loggers[f.recv]
         bytes == <<formatEntry(l.format, f.entry, maps[f.entry.Fields]), "\n">>
     IN /\ sinks' = [sinks EXCEPT ![l.output] =
                       <<[logger |-> f.recv, seq |-> f.seq, bytes |-> bytes]>> \o @]
        /\ pc' = [pc EXCEPT ![t] = AfterLog(f.op, f.outer)]
        /\ frame' = [frame EXCEPT ![t] = IF f.op = "Fatal" THEN f ELSE NoFrame]
        /\ lastEmit' = [lastEmit EXCEPT ![t] =
                          IF f.op = "Fatal" THEN @ ELSE Summary(f, sinks', "returned")]
  /\ UNCHANGED <<globalVars, appVars, emitted, loggers, maps, published, exited, exitCode, ncalls, origin, http, lastReq>>

\* mutant of logWrite: an error of the Write is passed on as a panic
logWriteSurfaces(t) ==
  /\ ~exited
  /\ pc[t] = "log_write"
  /\ LET f == frame[t]
         l == loggers[f.recv]
         bytes == <<formatEntry(l.format, f.entry, maps[f.entry.Fields]), "\n">>
         status == IF WriteError(l.output) = "nil" THEN "returned" ELSE "panicked"
     IN /\ sinks' = [sinks EXCEPT ![l.output] = Append(@, [logger |-> f.recv, seq |-> f.seq, bytes |-> bytes])]
        /\ pc' = [pc EXCEPT ![t] = AfterLog(f.op, f.outer)]
        /\ frame' = [frame EXCEPT ![t] = IF f.op = "Fatal" THEN f ELSE NoFrame]
        /\ lastEmit' = [lastEmit EXCEPT ![t] =
                          IF f.op = "Fatal" THEN @ ELSE Summary(f, sinks', status)]
  /\ UNCHANGED <<globalVars, appVars, emitted, loggers, maps, published, exited, exitCode, ncalls, origin, http, lastReq>>

\* log, line 491: the entry is rendered and written, one Write, and log returns;
\* what the Write returns (n, err) is discarded
logWrite(t) ==
  /\ ~exited
  /\ pc[t] = "log_write"
  /\ LET f == frame[t]
         l == loggers[f.recv]
         bytes == <<formatEntry(l.format, f.entry, maps[f.entry.Fields]), "\n">>
     IN /\ sinks' = [sinks EXCEPT ![l.output] = Append(@, [logger |-> f.recv, seq |-> f.seq, bytes |-> bytes])]
        /\ pc' = [pc EXCEPT ![t] = AfterLog(f.op, f.outer)]
        /\ frame' = [frame EXCEPT ![t] = IF f.op = "Fatal" THEN f ELSE NoFrame]
        /\ lastEmit' = [lastEmit EXCEPT ![t] =
                          IF f.op = "Fatal" THEN @ ELSE Summary(f, sinks', "returned")]
  /\ UNCHANGED <<globalVars, appVars, emitted, loggers, maps, published, exited, exitCode, ncalls, origin, http, lastReq>>

\* mutant of osExit: Fatal returns to its caller
osExitReturns(t) ==
  /\ ~exited
  /\ pc[t] = "exit"
  /\ pc' = [pc EXCEPT ![t] = "idle"]
  /\ frame' = [frame EXCEPT ![t] = NoFrame]
  /\ lastEmit' = [lastEmit EXCEPT ![t] = Summary(frame[t], sinks, "returned")]
  /\ UNCHANGED <<globalVars, appVars, emitted, loggers, maps, sinks, published, exited, exitCode, ncalls, origin, http,
                 lastReq>>

\* Fatal, line 459: os.Exit(1)
osExit(t) ==
  /\ ~exited
  /\ pc[t] = "exit"
  /\ exited' = TRUE
  /\ exitCode' = 1
  /\ pc' = [pc EXCEPT ![t] = "exited"]
  /\ lastEmit' = [lastEmit EXCEPT ![t] = Summary(frame[t], sinks, "exited")]
  /\ UNCHANGED <<globalVars, appVars, emitted, loggers, maps, sinks, frame, published, ncalls, origin, http, lastReq>>

\* mutant of SetLevel: the level is kept in one place per family of loggers,
\* so the loggers derived from l get it too
SetLevelFamily(t, l, level) ==
  /\ CanCall(t)
  /\ l \in published
  /\ loggers' = [d \in DOMAIN loggers |->
                   IF d = l \/ origin[d].src = l
                     THEN [loggers[d] EXCEPT !.level = level]
                     ELSE loggers[d]]
  /\ ncalls' = ncalls + 1
  /\ UNCHANGED <<globalVars, appVars, emitted, maps, sinks, pc, frame, published, exited,
                 exitCode, origin, lastEmit, http, lastReq>>

\* SetLevel
SetLevel(t, l, level) ==
  /\ CanCall(t)
  /\ l \in published
  /\ loggers' = [loggers EXCEPT ![l].level = level]
  /\ ncalls' = ncalls + 1
  /\ UNCHANGED <<globalVars, appVars, emitted, maps, sinks, pc, frame, published, exited, exitCode, origin, lastEmit,
                 http, lastReq>>

\* Logger.SetFormat, lines 595-597
SetFormat(t, l, format) ==
  /\ CanCall(t)
  /\ l \in published
  /\ loggers' = [loggers EXCEPT ![l].format = format]
  /\ ncalls' = ncalls + 1
  /\ UNCHANGED <<globalVars, appVars, emitted, maps, sinks, pc, frame, published, exited,
                 exitCode, origin, lastEmit, http, lastReq>>

\* Logger.SetOutput, lines 600-602
SetOutput(t, l, output) ==
  /\ CanCall(t)
  /\ l \in published
  /\ loggers' = [loggers EXCEPT ![l].output = output]
  /\ ncalls' = ncalls + 1
  /\ UNCHANGED <<globalVars, appVars, emitted, maps, sinks, pc, frame, published, exited,
                 exitCode, origin, lastEmit, http, lastReq>>

(* ------------------------------------------------------------------ *)
(* Spec: derivation and emission by concurrent threads                  *)
(* ------------------------------------------------------------------ *)
FieldMaps == {Put(Put(EmptyMap, "a", IntVal(2)), "b", IntVal(1))}

Contexts == {Put(EmptyMap, "request_id", IntVal(2))}

TextConfig ==
  [Level |-> <<"d","e","b","u","g">>, Format |-> <<"T","E","X","T">>,
   Output |-> Buf, CallerSkip |-> 0]

Step(t) ==
  \/ New(t, TextConfig)
  \/ \E l \in published : WithField(t, l, "a", IntVal(1))
  \/ \E l \in published, m \in FieldMaps : WithFields(t, l, m)
  \/ \E l \in published, ctx \in Contexts : WithContext(t, l, ctx)
  \/ cloneCopy(t)
  \/ cloneReturn(t)
  \/ setField(t)
  \/ deriveReturn(t)
  \/ \E l \in published : Info(t, l, <<"hello">>, <<>>, <<UserFn, GoExit>>)
  \/ logEntry(t)
  \/ logWrite(t)

Next == \E t \in Threads : Step(t)

Spec == Init /\ [][Next]_vars

(* ------------------------------------------------------------------ *)
(* SpecEmit: thresholds, callers and Fatal, one thread                  *)
(* ------------------------------------------------------------------ *)
Configs ==
  {[Level |-> <<"d","e","b","u","g">>, Format |-> <<"j","s","o","n">>,
    Output |-> Nil, CallerSkip |-> 1],
   [Level |-> <<"W","a","r","n","i","n","g">>, Format |-> <<"T","E","X","T">>,
    Output |-> Buf, CallerSkip |-> 0],
   [Level |-> <<"E","R","R","O","R">>, Format |-> <<"p","l","a","i","n">>,
    Output |-> Buf, CallerSkip |-> MaxSkip],
   [Level |-> <<"f","a","t","a","l">>, Format |-> <<"x">>,
    Output |-> Nil, CallerSkip |-> 0],
   [Level |-> <<"b","o","g","u","s">>, Format |-> <<"j","s","o","n">>,
    Output |-> Buf, CallerSkip |-> 0]}

\* a message with its arguments and the stack of the caller
EmitInputs ==
  {<<<<"hello">>, <<>>, <<GoExit>>>>, <<<<"n=", "%d">>, <<IntVal(7)>>, <<UserFn, GoExit>>>>}

EmitStep(t) ==
  \/ \E config \in Configs : New(t, config)
  \/ \E l \in published, v \in LevelValues : SetLevel(t, l, v)
  \/ \E l \in published, i \in EmitInputs :
       \/ Debug(t, l, i[1], i[2], i[3])
       \/ Info(t, l, i[1], i[2], i[3])
       \/ Warn(t, l, i[1], i[2], i[3])
       \/ Error(t, l, i[1], i[2], i[3])
       \/ Fatal(t, l, i[1], i[2], i[3])
  \/ logEntry(t)
  \/ logWrite(t)
  \/ osExit(t)

NextEmit == EmitStep("t1")

SpecEmit == Init /\ [][NextEmit]_vars

(* ------------------------------------------------------------------ *)
(* The global slot and the free functions                               *)
(* ------------------------------------------------------------------ *)
\* history: the Logger the last SetGlobalLogger call was given, or NewDefault's
Installed == IF installs = <<>> THEN 1 ELSE installs[Len(installs)]

\* mutant of GlobalReceiver: the first Logger installed stays in the slot
GlobalReceiverFirst == IF installs = <<>> THEN defaultLogger ELSE installs[1]

\* the receiver of a free function, lines 609-637: defaultLogger, read at the call
GlobalReceiver == defaultLogger

\* SetGlobalLogger, lines 641-643
SetGlobalLogger(t, l) ==
  /\ CanCall(t)
  /\ l \in published
  /\ ncalls' = ncalls + 1
  /\ defaultLogger' = l
  /\ installs' = Append(installs, l)
  /\ result' = [result EXCEPT ![t] =
                  [NoResult EXCEPT !.seq = ncalls + 1, !.op = "SetGlobalLogger", !.slot = l,
                                   !.logger = l]]
  /\ UNCHANGED <<appVars, emitted, loggers, maps, sinks, pc, frame, published, exited, exitCode,
                 origin, lastEmit, http, lastReq>>

\* GetGlobalLogger, lines 646-648
GetGlobalLogger(t) ==
  /\ CanCall(t)
  /\ ncalls' = ncalls + 1
  /\ result' = [result EXCEPT ![t] =
                  [NoResult EXCEPT !.seq = ncalls + 1, !.op = "GetGlobalLogger",
                                   !.slot = Installed, !.logger = defaultLogger]]
  /\ UNCHANGED <<defaultLogger, installs, appVars, emitted, loggers, maps, sinks, pc, frame,
                 published, exited, exitCode, origin, lastEmit, http, lastReq>>

\* a free emission function at line gline: defaultLogger.<op>(msg, args...)
globalLog(t, level, op, gline, mline, msg, args, ustack) ==
  /\ CanCall(t)
  /\ ncalls' = ncalls + 1
  /\ logStart(t, GlobalReceiver, level, op, "global", mline, msg, args,
              <<StackFrame(LoggerFile, gline)>> \o ustack, ncalls + 1)
  /\ result' = [result EXCEPT ![t] =
                  [NoResult EXCEPT !.seq = ncalls + 1, !.op = op, !.slot = Installed]]
  /\ UNCHANGED <<defaultLogger, installs, appVars, loggers, maps, sinks, published, exited,
                 exitCode, origin, http, lastReq>>

GlobalDebug(t, msg, args, ustack) == globalLog(t, DEBUG, "Debug", 609, 438, msg, args, ustack)

GlobalInfo(t, msg, args, ustack) == globalLog(t, INFO, "Info", 613, 443, msg, args, ustack)

GlobalWarn(t, msg, args, ustack) == globalLog(t, WARN, "Warn", 617, 448, msg, args, ustack)

GlobalError(t, msg, args, ustack) == globalLog(t, ERROR, "Error", 621, 453, msg, args, ustack)

GlobalFatal(t, msg, args, ustack) == globalLog(t, FATAL, "Fatal", 625, 458, msg, args, ustack)

\* a free derivation function: return defaultLogger.<op>(...)
globalDerive(t, op, adds) ==
  /\ CanCall(t)
  /\ HeapRoom
  /\ cloneAlloc(t, GlobalReceiver, op, adds, ncalls + 1)
  /\ ncalls' = ncalls + 1
  /\ result' = [result EXCEPT ![t] =
                  [NoResult EXCEPT !.seq = ncalls + 1, !.op = op, !.slot = Installed]]
  /\ UNCHANGED <<defaultLogger, installs, appVars, emitted, loggers, sinks, published, exited,
                 exitCode, origin, lastEmit, http, lastReq>>

GlobalWithField(t, key, value) == globalDerive(t, "WithField", Put(EmptyMap, key, value))

GlobalWithFields(t, fields) == globalDerive(t, "WithFields", fields)

GlobalWithContext(t, ctx) ==
  globalDerive(t, "WithContext", [k \in {x \in ContextKeys : x \in DOMAIN ctx} |-> ctx[k]])

(* ------------------------------------------------------------------ *)
(* SpecGlobal: one thread installs loggers and calls the free functions *)
(* ------------------------------------------------------------------ *)
GlobalConfigs ==
  {[Level |-> <<"d","e","b","u","g">>, Format |-> <<"t","e","x","t">>,
    Output |-> Buf, CallerSkip |-> 0],
   [Level |-> <<"e","r","r","o","r">>, Format |-> <<"j","s","o","n">>,
    Output |-> Nil, CallerSkip |-> 0]}

\* the state after user := New(config).WithField("b", 2): the slot still holds
\* NewDefault's Logger, and the Logger New made is no longer referenced
InitGlobal ==
  \E config \in GlobalConfigs :
    /\ loggers = <<NewLogger(DefaultConfig, 1), NewLogger(config, 2)>>
    /\ maps = <<EmptyMap, Put(EmptyMap, "b", IntVal(2))>>
    /\ sinks = [s \in Sinks |-> <<>>]
    /\ pc = [t \in Threads |-> "idle"]
    /\ frame = [t \in Threads |-> NoFrame]
    /\ published = {1, 2}
    /\ exited = FALSE
    /\ exitCode = 0
    /\ ncalls = 0
    /\ origin = <<RootOrigin,
                  [RootOrigin EXCEPT !.op = "WithField",
                                     !.adds = Put(EmptyMap, "b", IntVal(2))]>>
    /\ lastEmit = [t \in Threads |-> NoCall]
    /\ http = [t \in Threads |-> NoRequest]
    /\ lastReq = [t \in Threads |-> NoRequest]
    /\ InitRest
    /\ InitIdle

GlobalStep(t) ==
  \/ \E config \in GlobalConfigs : New(t, config)
  \/ \E l \in published : SetGlobalLogger(t, l)
  \/ GetGlobalLogger(t)
  \/ GlobalDebug(t, <<"hello">>, <<>>, <<UserFn, GoExit>>)
  \/ GlobalInfo(t, <<"hello">>, <<>>, <<UserFn, GoExit>>)
  \/ GlobalWarn(t, <<"hello">>, <<>>, <<UserFn, GoExit>>)
  \/ GlobalError(t, <<"n=", "%d">>, <<IntVal(7)>>, <<UserFn, GoExit>>)
  \/ GlobalFatal(t, <<"hello">>, <<>>, <<UserFn, GoExit>>)
  \/ GlobalWithField(t, "a", IntVal(1))
  \/ \E fields \in FieldMaps : GlobalWithFields(t, fields)
  \/ \E ctx \in Contexts : GlobalWithContext(t, ctx)
  \/ cloneCopy(t)
  \/ cloneReturn(t)
  \/ setField(t)
  \/ deriveReturn(t)
  \/ logEntry(t)
  \/ logWrite(t)
  \/ osExit(t)

NextGlobal == GlobalStep("t1")

SpecGlobal == InitGlobal /\ [][NextGlobal]_vars

(* ------------------------------------------------------------------ *)
(* HTTPLogMiddleware                                                    *)
(* ------------------------------------------------------------------ *)
\* what a handler does with its ResponseWriter, one operation at a time
Op(k, code, text) == [k |-> k, code |-> code, text |-> text, yes |-> <<>>, no |-> <<>>]
WriteHeaderOp(code) == Op("WriteHeader", code, "")
WriteOp(text) == Op("Write", 0, text)
HeaderSetOp(name) == Op("Header.Set", 0, name)
FlushOp == Op("Flush", 0, "")
PanicOp == Op("Panic", 0, "")
\* if f, ok := w.(http.Flusher); ok { yes } else { no }
IfFlusherOp(yes, no) == [k |-> "IfFlusher", code |-> 0, text |-> "", yes |-> yes, no |-> no]

\* the call an operation makes on the ResponseWriter it reaches
WriterCall(op) == <<op.k, op.code, op.text>>

\* the branch a type assertion w.(http.Flusher) selects
Taken(op, isFlusher) == IF isFlusher THEN op.yes ELSE op.no

\* responseWriterWrapper, lines 674-677: the struct embeds the http.ResponseWriter
\* interface, so its method set is Header, Write and WriteHeader; it has no Flush
WrapperIsFlusher == FALSE

\* mutant of WrappedStatus: WriteHeader forwards without recording
WrappedStatusKept(statusCode, code) == statusCode

\* responseWriterWrapper.WriteHeader, line 680: w.statusCode = statusCode
WrappedStatus(statusCode, code) == code

\* the *http.Request fields the middleware reads
Request(method, url, remote, agent) ==
  [Method |-> method, URL |-> url, RemoteAddr |-> remote, UserAgent |-> agent]

\* mutant of RequestFields: the status code is left out
RequestFieldsNoStatus(r, statusCode) ==
  [k \in {"method", "url", "remote_addr", "user_agent", "duration"} |->
     CASE k = "method" -> StrVal(r.Method)
       [] k = "url" -> StrVal(r.URL)
       [] k = "remote_addr" -> StrVal(r.RemoteAddr)
       [] k = "user_agent" -> StrVal(r.UserAgent)
       [] k = "duration" -> StrVal("dur")]

\* the map literal of lines 661-668; time.Since(start).String() is the text "dur"
RequestFields(r, statusCode) ==
  [k \in {"method", "url", "remote_addr", "user_agent", "status_code", "duration"} |->
     CASE k = "method" -> StrVal(r.Method)
       [] k = "url" -> StrVal(r.URL)
       [] k = "remote_addr" -> StrVal(r.RemoteAddr)
       [] k = "user_agent" -> StrVal(r.UserAgent)
       [] k = "status_code" -> IntVal(statusCode)
       [] k = "duration" -> StrVal("dur")]

\* the stack below Info when the closure calls it: the closure, its caller in net/http
MiddlewareStack ==
  <<StackFrame(LoggerFile, 668), StackFrame(<<"net", "http", "server.go">>, 3), GoExit>>

\* next.ServeHTTP(w, r) on the server's own writer: the calls that reach it
RECURSIVE DirectRun(_, _)
DirectRun(script, flusher) ==
  IF script = <<>> THEN <<>>
  ELSE LET op == Head(script) IN
       CASE op.k = "IfFlusher" -> DirectRun(Taken(op, flusher) \o Tail(script), flusher)
         [] op.k = "Panic" -> <<>>
         [] OTHER -> <<WriterCall(op)>> \o DirectRun(Tail(script), flusher)

CanServe(t) == ~exited /\ pc[t] = "idle" /\ ncalls < MaxRequests

\* the closure, lines 653-659: the wrapper is made with statusCode 200 and the
\* handler is called with it and the request
ServeHTTP(t, l, r, script, flusher) ==
  /\ CanServe(t)
  /\ l \in published
  /\ ncalls' = ncalls + 1
  /\ http' = [http EXCEPT ![t] =
                [NoRequest EXCEPT !.seq = ncalls + 1, !.logger = l, !.req = r,
                                  !.script = script, !.flusher = flusher, !.rest = script,
                                  !.statusCode = 200, !.runs = 1, !.handlerReq = r,
                                  !.before = Fields(l), !.mark = Mark(sinks),
                                  !.outcome = "running"]]
  /\ pc' = [pc EXCEPT ![t] = "handler"]
  /\ UNCHANGED <<globalVars, appVars, emitted, loggers, maps, sinks, frame, published, exited, exitCode, origin, lastEmit,
                 lastReq>>

\* one operation of the handler on the wrapper: WriteHeader is the wrapper's own
\* method (lines 679-682), Header and Write are the embedded writer's
handlerStep(t) ==
  /\ ~exited
  /\ pc[t] = "handler"
  /\ http[t].rest # <<>>
  /\ LET h == http[t]
         op == Head(h.rest)
     IN /\ op.k # "Panic"
        /\ http' = [http EXCEPT ![t] =
             CASE op.k = "IfFlusher" ->
                    [h EXCEPT !.rest = Taken(op, WrapperIsFlusher) \o Tail(h.rest)]
               [] op.k = "WriteHeader" ->
                    [h EXCEPT !.rest = Tail(h.rest),
                              !.statusCode = WrappedStatus(h.statusCode, op.code),
                              !.performed = Append(@, WriterCall(op)),
                              !.reached = Append(@, WriterCall(op))]
               [] OTHER ->
                    [h EXCEPT !.rest = Tail(h.rest),
                              !.performed = Append(@, WriterCall(op)),
                              !.reached = Append(@, WriterCall(op))]]
  /\ UNCHANGED <<globalVars, appVars, emitted, loggers, maps, sinks, pc, frame, published, exited, exitCode, ncalls, origin,
                 lastEmit, lastReq>>

\* the handler panics: the closure has no deferred call, line 661 is never reached
handlerPanic(t) ==
  /\ ~exited
  /\ pc[t] = "handler"
  /\ http[t].rest # <<>>
  /\ Head(http[t].rest).k = "Panic"
  /\ lastReq' = [lastReq EXCEPT ![t] =
                   [http[t] EXCEPT !.outcome = "panicked",
                                   !.during = Delta(sinks, http[t].mark),
                                   !.written = Delta(sinks, http[t].mark)]]
  /\ http' = [http EXCEPT ![t] = NoRequest]
  /\ pc' = [pc EXCEPT ![t] = "idle"]
  /\ UNCHANGED <<globalVars, appVars, emitted, loggers, maps, sinks, frame, published, exited, exitCode, ncalls, origin,
                 lastEmit>>

\* the handler returns; line 661: l.WithFields(map...) begins with l.clone()
handlerReturn(t) ==
  /\ ~exited
  /\ pc[t] = "handler"
  /\ http[t].rest = <<>>
  /\ cloneAlloc(t, http[t].logger, "HTTPLogMiddleware",
                RequestFields(http[t].req, http[t].statusCode), http[t].seq)
  /\ http' = [http EXCEPT ![t].during = Delta(sinks, http[t].mark)]
  /\ UNCHANGED <<globalVars, appVars, emitted, loggers, sinks, published, exited, exitCode, ncalls, origin, lastEmit,
                 lastReq>>

\* line 668: WithFields has returned the derived logger, .Info("HTTP request") on it
httpInfo(t) ==
  /\ ~exited
  /\ pc[t] = "set"
  /\ frame[t].op = "HTTPLogMiddleware"
  /\ (DOMAIN frame[t].adds) \ frame[t].done = {}
  /\ logStart(t, frame[t].newLogger, INFO, "Info", "http", 443, <<"HTTP request">>, <<>>,
              MiddlewareStack, frame[t].seq)
  /\ http' = [http EXCEPT ![t].thr = loggers[frame[t].newLogger].level]
  /\ origin' = [origin EXCEPT ![frame[t].newLogger].ret = ncalls]
  /\ UNCHANGED <<globalVars, appVars, loggers, maps, sinks, published, exited, exitCode, ncalls, lastReq>>

\* the closure returns
httpReturn(t) ==
  /\ ~exited
  /\ pc[t] = "http_ret"
  /\ lastReq' = [lastReq EXCEPT ![t] =
                   [http[t] EXCEPT !.outcome = "returned",
                                   !.written = Delta(sinks, http[t].mark)]]
  /\ http' = [http EXCEPT ![t] = NoRequest]
  /\ pc' = [pc EXCEPT ![t] = "idle"]
  /\ UNCHANGED <<globalVars, appVars, emitted, loggers, maps, sinks, frame, published, exited, exitCode, ncalls, origin,
                 lastEmit>>

(* ------------------------------------------------------------------ *)
(* SpecHTTP: requests through the middleware of one logger, one thread  *)
(* ------------------------------------------------------------------ *)
HttpConfigs ==
  {[Level |-> <<"i","n","f","o">>, Format |-> <<"j","s","o","n">>,
    Output |-> Nil, CallerSkip |-> 0],
   [Level |-> <<"w","a","r","n">>, Format |-> <<"t","e","x","t">>,
    Output |-> Buf, CallerSkip |-> 0],
   [Level |-> <<"D","E","B","U","G">>, Format |-> <<"t","e","x","t">>,
    Output |-> Buf, CallerSkip |-> 0]}

\* the state after l := New(config).WithField("a", 1); l is the middleware's logger
InitHTTP ==
  \E config \in HttpConfigs :
    /\ loggers = <<NewLogger(DefaultConfig, 1), NewLogger(config, 2),
                   [NewLogger(config, 2) EXCEPT !.fields = 3]>>
    /\ maps = <<EmptyMap, EmptyMap, Put(EmptyMap, "a", IntVal(1))>>
    /\ sinks = [s \in Sinks |-> <<>>]
    /\ pc = [t \in Threads |-> "idle"]
    /\ frame = [t \in Threads |-> NoFrame]
    /\ published = {1, 2, 3}
    /\ exited = FALSE
    /\ exitCode = 0
    /\ ncalls = 0
    /\ origin = <<RootOrigin, RootOrigin,
                  [RootOrigin EXCEPT !.op = "WithField", !.src = 2,
                                     !.adds = Put(EmptyMap, "a", IntVal(1))]>>
    /\ lastEmit = [t \in Threads |-> NoCall]
    /\ http = [t \in Threads |-> NoRequest]
    /\ lastReq = [t \in Threads |-> NoRequest]
    /\ InitRest
    /\ InitIdle

\* the logger HTTPLogMiddleware was called on
MiddlewareLogger == CHOOSE l \in published : \A m \in published : m <= l

GetA == Request("GET", "/a", "10.0.0.1:5", "curl")
PostB == Request("POST", "/b?x=1", "10.0.0.2:6", "")

\* a request, the handler that serves it, and whether the server's writer is an
\* http.Flusher (net/http's is)
ServeInputs ==
  {<<GetA, <<>>, TRUE>>,
   <<PostB, <<WriteHeaderOp(404)>>, TRUE>>,
   <<GetA, <<WriteOp("x")>>, TRUE>>,
   <<PostB, <<WriteHeaderOp(404), WriteHeaderOp(500)>>, TRUE>>,
   <<GetA, <<HeaderSetOp("X-A"), WriteHeaderOp(201), WriteOp("x")>>, TRUE>>,
   <<PostB, <<WriteOp("x"), WriteHeaderOp(500)>>, TRUE>>,
   <<GetA, <<IfFlusherOp(<<WriteOp("x"), FlushOp>>, <<WriteHeaderOp(500)>>)>>, TRUE>>,
   <<GetA, <<IfFlusherOp(<<WriteOp("x"), FlushOp>>, <<WriteHeaderOp(500)>>)>>, FALSE>>,
   <<PostB, <<WriteHeaderOp(404), PanicOp>>, TRUE>>}

HTTPStep(t) ==
  \/ \E i \in ServeInputs : ServeHTTP(t, MiddlewareLogger, i[1], i[2], i[3])
  \/ handlerStep(t)
  \/ handlerPanic(t)
  \/ handlerReturn(t)
  \/ cloneCopy(t)
  \/ cloneReturn(t)
  \/ setField(t)
  \/ httpInfo(t)
  \/ logEntry(t)
  \/ logWrite(t)
  \/ httpReturn(t)

NextHTTP == HTTPStep("t1")

SpecHTTP == InitHTTP /\ [][NextHTTP]_vars

(* ------------------------------------------------------------------ *)
(* SpecConc: threads emit through one logger at the same time           *)
(* ------------------------------------------------------------------ *)
\* the Logger the threads share: the derived one of InitHTTP's construction
SharedLogger == 3

ConcStack == <<UserFn, GoExit>>

ConcStep(t) ==
  \/ Info(t, SharedLogger, <<"hello">>, <<>>, ConcStack)
  \/ Info(t, SharedLogger, <<"n=", "%d">>, <<IntVal(7)>>, ConcStack)
  \/ logEntry(t)
  \/ logWrite(t)

NextConc == \E t \in Threads : ConcStep(t)

SpecConc == InitHTTP /\ [][NextConc]_vars

(* ------------------------------------------------------------------ *)
(* SpecRender: messages and field values of every shape are rendered    *)
(* ------------------------------------------------------------------ *)
RenderConfigs ==
  {[Level |-> <<"i","n","f","o">>, Format |-> <<"j","s","o","n">>,
    Output |-> Buf, CallerSkip |-> 0],
   [Level |-> <<"I","N","F","O">>, Format |-> <<"t","e","x","t">>,
    Output |-> Buf, CallerSkip |-> 0]}

\* the state after user := New(config).WithField("b", 2): the Logger New made
\* is no longer referenced and is not kept on the heap
InitRender ==
  \E config \in RenderConfigs :
    /\ loggers = <<NewLogger(DefaultConfig, 1), NewLogger(config, 2)>>
    /\ maps = <<EmptyMap, Put(EmptyMap, "b", IntVal(2))>>
    /\ sinks = [s \in Sinks |-> <<>>]
    /\ pc = [t \in Threads |-> "idle"]
    /\ frame = [t \in Threads |-> NoFrame]
    /\ published = {1, 2}
    /\ exited = FALSE
    /\ exitCode = 0
    /\ ncalls = 0
    /\ origin = <<RootOrigin,
                  [RootOrigin EXCEPT !.op = "WithField",
                                     !.adds = Put(EmptyMap, "b", IntVal(2))]>>
    /\ lastEmit = [t \in Threads |-> NoCall]
    /\ http = [t \in Threads |-> NoRequest]
    /\ lastReq = [t \in Threads |-> NoRequest]
    /\ InitRest
    /\ InitIdle

\* field values: a number, a text that is a line break, a channel
RenderValues == {IntVal(1), StrVal(Newline), ChanVal}

\* messages: plain, with a line break inside, and with one substituted in
RenderInputs ==
  {<<<<"hello">>, <<>>>>,
   <<<<"two", Newline, "lines">>, <<>>>>,
   <<<<"v=", "%s">>, <<StrVal(Newline)>>>>}

RenderStep(t) ==
  \/ \E l \in published \ {1}, v \in RenderValues : WithField(t, l, "a", v)
  \/ cloneCopy(t)
  \/ cloneReturn(t)
  \/ setField(t)
  \/ deriveReturn(t)
  \/ \E l \in published \ {1}, i \in RenderInputs :
       \/ Debug(t, l, i[1], i[2], ConcStack)
       \/ Info(t, l, i[1], i[2], ConcStack)
       \/ Error(t, l, i[1], i[2], ConcStack)
  \/ logEntry(t)
  \/ logWrite(t)

NextRender == RenderStep("t1")

SpecRender == InitRender /\ [][NextRender]_vars

(* ------------------------------------------------------------------ *)
(* SpecSink: a logger whose sink fails every Write                      *)
(* ------------------------------------------------------------------ *)
SinkConfigs ==
  {[Level |-> <<"i","n","f","o">>, Format |-> <<"j","s","o","n">>,
    Output |-> Broken, CallerSkip |-> 0],
   [Level |-> <<"d","e","b","u","g">>, Format |-> <<"t","e","x","t">>,
    Output |-> Broken, CallerSkip |-> 0]}

\* the state after user := New(config).WithField("b", 2), config.Output a
\* failing writer; the Logger New made is no longer referenced
InitSink ==
  \E config \in SinkConfigs :
    /\ loggers = <<NewLogger(DefaultConfig, 1), NewLogger(config, 2)>>
    /\ maps = <<EmptyMap, Put(EmptyMap, "b", IntVal(2))>>
    /\ sinks = [s \in Sinks |-> <<>>]
    /\ pc = [t \in Threads |-> "idle"]
    /\ frame = [t \in Threads |-> NoFrame]
    /\ published = {1, 2}
    /\ exited = FALSE
    /\ exitCode = 0
    /\ ncalls = 0
    /\ origin = <<RootOrigin,
                  [RootOrigin EXCEPT !.op = "WithField",
                                     !.adds = Put(EmptyMap, "b", IntVal(2))]>>
    /\ lastEmit = [t \in Threads |-> NoCall]
    /\ http = [t \in Threads |-> NoRequest]
    /\ lastReq = [t \in Threads |-> NoRequest]
    /\ InitRest
    /\ InitIdle

SinkStep(t) ==
  \/ \E l \in published : WithField(t, l, "a", IntVal(1))
  \/ cloneCopy(t)
  \/ cloneReturn(t)
  \/ setField(t)
  \/ deriveReturn(t)
  \/ \E l \in published, i \in EmitInputs :
       \/ Debug(t, l, i[1], i[2], i[3])
       \/ Info(t, l, i[1], i[2], i[3])
       \/ Error(t, l, i[1], i[2], i[3])
  \/ logEntry(t)
  \/ logWrite(t)

NextSink == SinkStep("t1")

SpecSink == InitSink /\ [][NextSink]_vars

(* ------------------------------------------------------------------ *)
(* SpecParse: the two parsers applied to texts                          *)
(* ------------------------------------------------------------------ *)
\* the upper-case form of one lower-case letter
Upper(c) == UpperChars[IndexOf(LowerChars, c, 1)]

\* a lower-case word in every mix of upper and lower case
RECURSIVE CaseVariants(_)
CaseVariants(w) ==
  IF w = <<>> THEN {<<>>}
  ELSE {<<c>> \o r : c \in {w[1], Upper(w[1])}, r \in CaseVariants(Tail(w))}

LevelNames ==
  {<<"d","e","b","u","g">>, <<"i","n","f","o">>, <<"w","a","r","n">>,
   <<"w","a","r","n","i","n","g">>, <<"e","r","r","o","r">>, <<"f","a","t","a","l">>}

FormatNames == {<<"j","s","o","n">>, <<"t","e","x","t">>, <<"p","l","a","i","n">>}

\* texts that are no name: empty, near misses, padded, other words
OtherTexts ==
  {<<>>, <<"b","o","g","u","s">>, <<"w","a","r","n","i","n">>, <<"w","a","r","n","s">>,
   <<" ","i","n","f","o">>, <<"E","R","R","O","R"," ">>, <<"t","r","a","c","e">>,
   <<"j","s","o","n","x">>, <<"T","X","T">>, <<"1">>, <<"d","e","b","u","g","\n">>}

ParseTexts == UNION {CaseVariants(w) : w \in LevelNames \cup FormatNames} \cup OtherTexts

\* a caller holds a text; nothing has been parsed
InitParse ==
  /\ InitLogger
  /\ parse \in {[NoParse EXCEPT !.text = text] : text \in ParseTexts}
  /\ app = NoApp
  /\ web = NoWeb

ParseLevel ==
  /\ parse.level = -1
  /\ parse' = [parse EXCEPT !.level = parseLogLevel(parse.text)]
  /\ UNCHANGED <<loggers, maps, sinks, pc, frame, published, exited, exitCode, ncalls, origin,
                 lastEmit, http, lastReq, globalVars, emitted, app, web>>

ParseFormat ==
  /\ parse.format = -1
  /\ parse' = [parse EXCEPT !.format = parseLogFormat(parse.text)]
  /\ UNCHANGED <<loggers, maps, sinks, pc, frame, published, exited, exitCode, ncalls, origin,
                 lastEmit, http, lastReq, globalVars, emitted, app, web>>

NextParse == ParseLevel \/ ParseFormat

SpecParse == InitParse /\ [][NextParse]_vars

(* ------------------------------------------------------------------ *)
(* StdLogger: the io.Writer handed to the standard library's log.Logger *)
(* ------------------------------------------------------------------ *)
\* a []byte: its text and its length
Bytes(text, len) == [text |-> text, len |-> len]

\* the stack below Info when loggerWriter.Write calls it from log.Logger.Output
AdapterStack ==
  <<StackFrame(LoggerFile, 695), StackFrame(<<"log", "log.go">>, 1), UserFn, GoExit>>

\* loggerWriter.Write, line 695: w.logger.Info("%s", string(p))
loggerWriterWrite(t, l, p) ==
  /\ CanCall(t)
  /\ l \in published
  /\ ncalls' = ncalls + 1
  /\ logStart(t, l, INFO, "Info", "stdlog", 443, <<"%s">>, <<StrVal(p.text)>>, AdapterStack,
              ncalls + 1)
  /\ result' = [result EXCEPT ![t] =
                  [NoResult EXCEPT !.seq = ncalls + 1, !.op = "Write", !.logger = l,
                                   !.p = p.text, !.slot = p.len]]
  /\ UNCHANGED <<defaultLogger, installs, appVars, loggers, maps, sinks, published, exited,
                 exitCode, origin, http, lastReq>>

\* mutant of loggerWriterReturn: only bytes that reached the sink are reported
loggerWriterReturnShort(t) ==
  /\ ~exited
  /\ pc[t] = "write_ret"
  /\ pc' = [pc EXCEPT ![t] = "idle"]
  /\ result' = [result EXCEPT ![t].n = IF \A s \in Sinks : lastEmit[t].written[s] = <<>>
                                             THEN 0 ELSE result[t].slot,
                              ![t].err = "nil"]
  /\ UNCHANGED <<defaultLogger, installs, appVars, emitted, loggers, maps, sinks, frame,
                 published, exited, exitCode, ncalls, origin, lastEmit, http, lastReq>>

\* loggerWriter.Write, line 696: return len(p), nil
loggerWriterReturn(t) ==
  /\ ~exited
  /\ pc[t] = "write_ret"
  /\ pc' = [pc EXCEPT ![t] = "idle"]
  /\ result' = [result EXCEPT ![t].n = result[t].slot, ![t].err = "nil"]
  /\ UNCHANGED <<defaultLogger, installs, appVars, emitted, loggers, maps, sinks, frame,
                 published, exited, exitCode, ncalls, origin, lastEmit, http, lastReq>>

\* what log.Logger hands its writer: the message and a line break, in one slice
AdapterInputs ==
  {Bytes("hello\n", 6), Bytes("100%d\n", 6), Bytes("%s", 2), Bytes("", 0)}

StdStep(t) ==
  \/ \E l \in published, p \in AdapterInputs : loggerWriterWrite(t, l, p)
  \/ logEntry(t)
  \/ logWrite(t)
  \/ loggerWriterReturn(t)

NextStd == StdStep("t1")

SpecStd == InitHTTP /\ [][NextStd]_vars

(* ------------------------------------------------------------------ *)
(* main.go: App.Router, its middleware chain and its routes             *)
(* ------------------------------------------------------------------ *)
\* setupRoutes, lines 47-57: the paths that have a route
RoutePaths == {"/health", "/version", "/", "/api/v1/status"}

\* setupRoutes, lines 47-57: .Methods("GET", "OPTIONS") on every route
RouteMethods == {"GET", "OPTIONS"}

\* setupRoutes: the handler registered for a path
RouteHandler(path) ==
  CASE path = "/health" -> "healthHandler"
    [] path = "/version" -> "versionHandler"
    [] path = "/" -> "rootHandler"
    [] path = "/api/v1/status" -> "statusHandler"
    [] OTHER -> "none"

\* corsMiddleware, lines 96-98: the headers it sets
CORSHeaders ==
  {"Access-Control-Allow-Origin", "Access-Control-Allow-Methods", "Access-Control-Allow-Headers"}

\* a route matches a request when both its path and one of its methods do
Matches(method, path) == path \in RoutePaths /\ method \in RouteMethods

\* App.Router.ServeHTTP: the router runs the middleware chain (lines 43-44) around
\* the handler of the route that matches; when a path has a route but the method
\* is not one of the route's it answers 405 itself, and 404 when no path matches,
\* in both cases without entering any middleware
RouterServeHTTP(t, method, path) ==
  /\ app.made
  /\ web[t].stage \in {"idle", "done"}
  /\ app.requests < MaxRequests
  /\ app' = [app EXCEPT !.requests = @ + 1]
  /\ web' = [web EXCEPT ![t] =
       IF Matches(method, path)
         THEN [NoExchange EXCEPT !.stage = "cors", !.method = method, !.path = path,
                                 !.seq = app.requests + 1]
         ELSE [NoExchange EXCEPT !.stage = "done", !.method = method, !.path = path,
                                 !.seq = app.requests + 1, !.by = "router",
                                 !.headers = {"Content-Type"},
                                 !.status = IF path \in RoutePaths THEN 405 ELSE 404]]
  /\ UNCHANGED logVars

\* mutant of corsMiddleware: the preflight request is passed on as well
corsMiddlewarePassesOn(t) ==
  /\ web[t].stage = "cors"
  /\ web' = [web EXCEPT ![t].headers = @ \cup CORSHeaders,
                         ![t].cors = @ + 1,
                         ![t].stage = "logging"]
  /\ UNCHANGED <<logVars, app>>

\* corsMiddleware, lines 95-106
corsMiddleware(t) ==
  /\ web[t].stage = "cors"
  /\ web' = [web EXCEPT ![t].headers = @ \cup CORSHeaders,
                         ![t].cors = @ + 1,
                         ![t].status = IF web[t].method = "OPTIONS" THEN 200 ELSE @,
                         ![t].by = IF web[t].method = "OPTIONS" THEN "corsMiddleware" ELSE @,
                         ![t].stage = IF web[t].method = "OPTIONS" THEN "done" ELSE "logging"]
  /\ UNCHANGED <<logVars, app>>

\* mutant of loggingMiddleware: the line is printed on the way in as well
loggingMiddlewarePrintsFirst(t) ==
  /\ web[t].stage = "logging"
  /\ app' = [app EXCEPT !.log = Append(@, <<web[t].method, web[t].path>>)]
  /\ web' = [web EXCEPT ![t].logging = @ + 1, ![t].lines = @ + 1, ![t].stage = "handler"]
  /\ UNCHANGED logVars

\* loggingMiddleware, lines 88-89: take the time, call next
loggingMiddleware(t) ==
  /\ web[t].stage = "logging"
  /\ web' = [web EXCEPT ![t].logging = @ + 1, ![t].stage = "handler"]
  /\ UNCHANGED <<logVars, app>>

\* healthHandler, versionHandler, rootHandler, statusHandler, lines 61-83:
\* Content-Type, WriteHeader(200), the body
routeHandler(t) ==
  /\ web[t].stage = "handler"
  /\ web' = [web EXCEPT ![t].headers = @ \cup {"Content-Type"},
                         ![t].status = IF @ = 0 THEN 200 ELSE @,
                         ![t].by = IF web[t].status = 0 THEN RouteHandler(web[t].path) ELSE @,
                         ![t].body = RouteHandler(web[t].path),
                         ![t].handler = @ + 1,
                         ![t].stage = "logged"]
  /\ UNCHANGED <<logVars, app>>

\* loggingMiddleware, line 90: a.Logger.Printf of method and path, after next returned
loggingMiddlewareReturn(t) ==
  /\ web[t].stage = "logged"
  /\ app' = [app EXCEPT !.log = Append(@, <<web[t].method, web[t].path>>)]
  /\ web' = [web EXCEPT ![t].stage = "done", ![t].lines = @ + 1]
  /\ UNCHANGED logVars

\* the requests a client sends: every route, a path without one, three methods
WebMethods == {"GET", "OPTIONS", "POST"}
WebPaths == RoutePaths \cup {"/invalid"}

\* NewApp has returned; nothing was started
InitWeb ==
  /\ InitLogger
  /\ parse = NoParse
  /\ app = [NoApp EXCEPT !.made = TRUE]
  /\ web = NoWeb

WebStep(t) ==
  \/ \E method \in WebMethods, path \in WebPaths : RouterServeHTTP(t, method, path)
  \/ corsMiddleware(t)
  \/ loggingMiddleware(t)
  \/ routeHandler(t)
  \/ loggingMiddlewareReturn(t)

NextWeb == WebStep("t1")

SpecWeb == InitWeb /\ [][NextWeb]_vars

\* requests served by two goroutines of the http.Server at once
NextWebConc == \E t \in Threads : WebStep(t)

SpecWebConc == InitWeb /\ [][NextWebConc]_vars

(* ------------------------------------------------------------------ *)
(* main.go: NewApp, Start, Shutdown and func main                       *)
(* ------------------------------------------------------------------ *)
Running == app.exit = -1

\* NewApp, lines 30-38, called at main line 139: Router and Logger are set,
\* Server is not
NewApp ==
  /\ Running
  /\ ~app.made
  /\ app' = [app EXCEPT !.made = TRUE, !.server = "unset", !.main = "spawn"]
  /\ UNCHANGED <<logVars, web>>

\* main, lines 142-146: the goroutine that calls Start is started, and main goes
\* on to wait for a signal (the test: to sleep)
goStart ==
  /\ Running
  /\ app.main = "spawn"
  /\ app' = [app EXCEPT !.start = "called", !.main = "wait"]
  /\ UNCHANGED <<logVars, web>>

\* Start, lines 111-119: a.Server is assigned a new http.Server, then the
\* "Starting" line is printed
StartAssign ==
  /\ Running
  /\ app.start = "called"
  /\ app' = [app EXCEPT !.server = "new", !.start = "assigned",
                         !.log = Append(@, <<"Starting">>)]
  /\ UNCHANGED <<logVars, web>>

\* Start, line 120: ListenAndServe returns ErrServerClosed at once on a server
\* that was shut down, returns the listen error when the port cannot be bound,
\* and serves otherwise
ListenAndServe ==
  /\ Running
  /\ app.start = "assigned"
  /\ \/ /\ app.server = "closed"
        /\ app' = [app EXCEPT !.start = "returned", !.startErr = "ErrServerClosed"]
     \/ /\ app.server = "new"
        /\ \/ app' = [app EXCEPT !.start = "returned", !.startErr = "listen"]
           \/ app' = [app EXCEPT !.start = "serving", !.server = "serving"]
  /\ UNCHANGED <<logVars, web>>

\* the serving loop accepts a connection and reads a request from it
Accept ==
  /\ Running
  /\ app.server = "serving"
  /\ app.conns < MaxConns
  /\ app' = [app EXCEPT !.conns = @ + 1]
  /\ UNCHANGED <<logVars, web>>

\* a request in flight is answered and its connection becomes idle; a server
\* that is shutting down lets it finish
Finish ==
  /\ Running
  /\ app.conns > 0
  /\ app' = [app EXCEPT !.conns = @ - 1]
  /\ UNCHANGED <<logVars, web>>

\* Start, line 120: Serve returns ErrServerClosed once Shutdown closed the listener
ServeReturn ==
  /\ Running
  /\ app.start = "serving"
  /\ app.server = "closed"
  /\ app' = [app EXCEPT !.start = "returned", !.startErr = "ErrServerClosed"]
  /\ UNCHANGED <<logVars, web>>

\* main, lines 143-145 (the test, lines 171-174): what the goroutine does with
\* the error of Start; Fatalf prints and exits with status 1
afterStart ==
  /\ Running
  /\ app.start = "returned"
  /\ IF app.startErr \notin {"nil", "ErrServerClosed"}
       THEN IF app.harness = "main"
              THEN app' = [app EXCEPT !.start = "done", !.exit = 1,
                                      !.log = Append(@, <<"Server failed to start">>)]
              ELSE app' = [app EXCEPT !.start = "done",
                                      !.failed = @ \cup {"Server failed to start"}]
       ELSE app' = [app EXCEPT !.start = "done"]
  /\ UNCHANGED <<logVars, web>>

\* main, lines 151-155: the signal arrived (the test: the sleep ended) and the
\* context with its deadline is made
Quit ==
  /\ Running
  /\ app.main = "wait"
  /\ app' = [app EXCEPT !.main = "shutdown", !.ctx = "live"]
  /\ UNCHANGED <<logVars, web>>

\* the deadline of the context passes
ctxDone ==
  /\ Running
  /\ app.ctx = "live"
  /\ app' = [app EXCEPT !.ctx = "expired"]
  /\ UNCHANGED <<logVars, web>>

\* Shutdown, lines 125-126: the line is printed and a.Server.Shutdown(ctx) is
\* entered: on a nil *http.Server it panics; otherwise the server is marked
\* as shutting down and its listener is closed
Shutdown ==
  /\ Running
  /\ app.main = "shutdown"
  /\ app.shut = "none"
  /\ IF app.server = "unset"
       THEN app' = [app EXCEPT !.log = Append(@, <<"Shutting down server...">>),
                               !.shut = "panic", !.shutAt = app.server, !.exit = 2]
       ELSE app' = [app EXCEPT !.log = Append(@, <<"Shutting down server...">>),
                               !.shut = "poll", !.shutAt = app.server,
                               !.server = "closed"]
  /\ UNCHANGED <<logVars, web>>

\* http.Server.Shutdown: when no connection has a request in flight it
\* returns nil, otherwise it waits for its poll timer or for the context
ShutdownPoll ==
  /\ Running
  /\ app.shut = "poll"
  /\ IF app.conns = 0
       THEN app' = [app EXCEPT !.shut = "returned", !.shutErr = "nil", !.polled = 0]
       ELSE app' = [app EXCEPT !.shut = "wait", !.polled = app.conns]
  /\ UNCHANGED <<logVars, web>>

\* http.Server.Shutdown: the poll timer fires, or the context is done and its
\* error is returned
ShutdownWait ==
  /\ Running
  /\ app.shut = "wait"
  /\ \/ app' = [app EXCEPT !.shut = "poll"]
     \/ /\ app.ctx = "expired"
        /\ app' = [app EXCEPT !.shut = "returned", !.shutErr = "deadline exceeded"]
  /\ UNCHANGED <<logVars, web>>

\* mutant of afterShutdown: the error of Shutdown is not looked at
afterShutdownAnyway ==
  /\ Running
  /\ app.main = "shutdown"
  /\ app.shut = "returned"
  /\ IF app.harness = "main"
       THEN app' = [app EXCEPT !.main = "done", !.exit = 0,
                               !.log = Append(@, <<"Server exited">>)]
       ELSE app' = [app EXCEPT !.main = "done"]
  /\ UNCHANGED <<logVars, web>>

\* main, lines 157-161: Fatalf on an error of Shutdown, "Server exited" and the
\* return of main otherwise (the test, line 185: assert.NoError)
afterShutdown ==
  /\ Running
  /\ app.main = "shutdown"
  /\ app.shut = "returned"
  /\ IF app.harness = "main"
       THEN IF app.shutErr /= "nil"
              THEN app' = [app EXCEPT !.main = "done", !.exit = 1,
                                      !.log = Append(@, <<"Server forced to shutdown">>)]
              ELSE app' = [app EXCEPT !.main = "done", !.exit = 0,
                                      !.log = Append(@, <<"Server exited">>)]
       ELSE IF app.shutErr /= "nil"
              THEN app' = [app EXCEPT !.main = "done",
                                      !.failed = @ \cup {"NoError"}]
              ELSE app' = [app EXCEPT !.main = "done"]
  /\ UNCHANGED <<logVars, web>>

Harnesses == {"main", "test"}

\* func main, or the test function, is about to run
InitServer ==
  /\ InitLogger
  /\ parse = NoParse
  /\ \E h \in Harnesses : app = [NoApp EXCEPT !.harness = h]
  /\ web = NoWeb

NextServer ==
  \/ NewApp
  \/ goStart
  \/ StartAssign
  \/ ListenAndServe
  \/ Accept
  \/ Finish
  \/ ServeReturn
  \/ afterStart
  \/ Quit
  \/ ctxDone
  \/ Shutdown
  \/ ShutdownPoll
  \/ ShutdownWait
  \/ afterShutdown

SpecServer == InitServer /\ [][NextServer]_vars

(* ------------------------------------------------------------------ *)
(* SpecSet: the setters on a logger and on the loggers derived from it  *)
(* ------------------------------------------------------------------ *)
\* the values handed to the setters
SetLevels == {DEBUG, ERROR}
SetFormats == {TextFormat, JSONFormat}
SetOutputs == {Stdout, Buf}

SetStep(t) ==
  \/ \E l \in published \ {1} : WithField(t, l, "a", IntVal(1))
  \/ \E l \in published \ {1}, m \in FieldMaps : WithFields(t, l, m)
  \/ \E l \in published \ {1}, ctx \in Contexts : WithContext(t, l, ctx)
  \/ cloneCopy(t)
  \/ cloneReturn(t)
  \/ setField(t)
  \/ deriveReturn(t)
  \/ \E l \in published \ {1}, v \in SetLevels : SetLevel(t, l, v)
  \/ \E l \in published \ {1}, v \in SetFormats : SetFormat(t, l, v)
  \/ \E l \in published \ {1}, v \in SetOutputs : SetOutput(t, l, v)

NextSet == SetStep("t1")

SpecSet == InitRender /\ [][NextSet]_vars

(* ------------------------------------------------------------------ *)
(* The bytes of a Write                                                 *)
(* ------------------------------------------------------------------ *)
\* the elements of a set of strings as a sequence, in some order
RECURSIVE SetToSeq(_)
SetToSeq(S) == IF S = {} THEN <<>> ELSE LET x == CHOOSE y \in S : TRUE IN <<x>> \o SetToSeq(S \ {x})

\* pieces joined with a separator: strings.Join
RECURSIVE Join(_, _)
Join(parts, sep) ==
  IF parts = <<>> THEN <<>>
  ELSE IF Len(parts) = 1 THEN parts[1]
  ELSE parts[1] \o <<sep>> \o Join(Tail(parts), sep)

\* encoding/json's string escaping of one piece of text: a newline becomes \n
JSONEscape(piece) == IF piece = Newline THEN "\\n" ELSE piece

JSONString(pieces) == <<"\"">> \o [i \in DOMAIN pieces |-> JSONEscape(pieces[i])] \o <<"\"">>

\* a fields value in JSON: a number bare, a string quoted and escaped
JSONValue(v) == IF v.kind = "int" THEN <<ToString(v.n)>> ELSE JSONString(<<v.s>>)

\* the bytes of a rendered line, as pieces of text
TextBytes(line) ==
  Join([i \in DOMAIN line.parts |->
          LET part == line.parts[i] IN
          IF Len(part) = 3 /\ part[1] = "{"
            THEN <<"{">>
                 \o Join([j \in 1..Cardinality(part[2]) |->
                            LET ks == SetToSeq({p[1] : p \in part[2]})
                                kv == CHOOSE p \in part[2] : p[1] = ks[j]
                            IN <<kv[1], "=", kv[3]>>], ", ")
                 \o <<"}">>
            ELSE part], " ")

JSONBytes(line) ==
  LET obj == line.obj
      member(k) ==
        <<"\"", k, "\":">>
        \o (IF k = "fields"
              THEN <<"{">>
                   \o Join([j \in 1..Cardinality(DOMAIN obj[k]) |->
                              LET ks == SetToSeq(DOMAIN obj[k]) IN
                              <<"\"", ks[j], "\":">> \o JSONValue(obj[k][ks[j]])], ",")
                   \o <<"}">>
              ELSE JSONString(obj[k]))
      keys == SelectSeq(<<"timestamp", "level", "message", "caller", "fields">>,
                        LAMBDA k : k \in DOMAIN obj)
  IN <<"{">> \o Join([i \in DOMAIN keys |-> member(keys[i])], ",") \o <<"}">>

LineBytes(line) ==
  CASE line.enc = "json" -> JSONBytes(line)
    [] line.enc = "text" -> TextBytes(line)
    [] OTHER -> line.parts[1]

\* the bytes one Write handed to its sink
WriteBytes(w) == LineBytes(w.bytes[1]) \o (IF Len(w.bytes) = 2 THEN <<w.bytes[2]>> ELSE <<>>)

\* the content of a sink: the bytes of its Writes in order
RECURSIVE Content(_)
Content(writes) == IF writes = <<>> THEN <<>> ELSE WriteBytes(Head(writes)) \o Content(Tail(writes))

\* the positions of the terminators in some bytes
NewlinesOf(bytes) == {i \in DOMAIN bytes : bytes[i] = Newline}

\* the complete lines of some bytes, and what follows the last terminator
Lines(bytes) ==
  LET nl == NewlinesOf(bytes)
      pos(k) == IF k = 0 THEN 0 ELSE CHOOSE i \in nl : Cardinality({j \in nl : j < i}) = k - 1
  IN [lines |-> [k \in 1..Cardinality(nl) |-> SubSeq(bytes, pos(k - 1) + 1, pos(k) - 1)],
      rest |-> SubSeq(bytes, pos(Cardinality(nl)) + 1, Len(bytes))]

\* how many terminators the bytes hold
CountNewlines(bytes) == Cardinality(NewlinesOf(bytes))

(* ------------------------------------------------------------------ *)
(* Reading a written line back                                          *)
(* ------------------------------------------------------------------ *)
EmissionOps == {"Debug", "Info", "Warn", "Error", "Fatal"}
DeriveOps == {"WithField", "WithFields", "WithContext"}

\* the rendered text of every value of a fields mapping
ValueTexts(m) == [k \in DOMAIN m |-> FormatValue(m[k])]

\* the line has a caller member (structured) or a parenthesised token after the level (text)
LineHasCaller(line) ==
  CASE line.enc = "json" -> "caller" \in DOMAIN line.obj
    [] line.enc = "text" -> Len(line.parts) >= 4 /\ line.parts[3][1] = "("
    [] OTHER -> FALSE

\* the fields a line shows, as key -> rendered value
LineFields(line) ==
  CASE line.enc = "json" ->
         IF "fields" \in DOMAIN line.obj THEN ValueTexts(line.obj["fields"]) ELSE EmptyMap
    [] line.enc = "text" ->
         LET last == line.parts[Len(line.parts)] IN
         IF last[1] = "{" /\ Len(last) = 3
           THEN [k \in {p[1] : p \in last[2]} |-> (CHOOSE p \in last[2] : p[1] = k)[3]]
           ELSE EmptyMap
    [] OTHER -> EmptyMap

\* all Writes of all sinks
AllWrites == UNION {{sinks[s][i] : i \in DOMAIN sinks[s]} : s \in Sinks}

NumWritten(c) == Len(c.written[Stdout]) + Len(c.written[Buf]) + Len(c.written[Broken])

\* the level and the message a line shows
LineLevel(line) ==
  CASE line.enc = "json" -> line.obj["level"][1]
    [] line.enc = "text" -> line.parts[2][2]
    [] OTHER -> ""

LineMessage(line) ==
  CASE line.enc = "json" -> line.obj["message"]
    [] line.enc = "text" -> IF LineHasCaller(line) THEN line.parts[4] ELSE line.parts[3]
    [] OTHER -> line.parts[1]

\* the codes of the WriteHeader calls among the calls, in order
RECURSIVE WHCodes(_)
WHCodes(calls) ==
  IF calls = <<>> THEN <<>>
  ELSE IF Head(calls)[1] = "WriteHeader" THEN <<Head(calls)[2]>> \o WHCodes(Tail(calls))
  ELSE WHCodes(Tail(calls))

\* the status codes, header mutations and body bytes among the calls, in order
RECURSIVE Response(_)
Response(calls) ==
  IF calls = <<>> THEN <<>>
  ELSE IF Head(calls)[1] \in {"WriteHeader", "Header.Set", "Write"}
         THEN <<Head(calls)>> \o Response(Tail(calls))
  ELSE Response(Tail(calls))

\* the lines written for a finished request, and the one line when there is one
RequestLines(r) == r.written[Stdout] \o r.written[Buf]
RequestLine(r) == RequestLines(r)[1].bytes[1]

HTTPKeys == {"method", "url", "remote_addr", "user_agent", "status_code", "duration"}

\* the request has finished with its record written
Logged(r) == r.outcome = "returned" /\ Len(RequestLines(r)) = 1

(* ------------------------------------------------------------------ *)
(* Claims                                                               *)
(* ------------------------------------------------------------------ *)

\* C1: an emission call at level L on a logger with threshold T hands the sink
\* exactly one Write if L >= T (L = T included) and leaves every sink as it was
\* if L < T.  lastEmit[t].written is what the sinks gained between the call's
\* entry and its end.
C1_ThresholdFilter ==
  \A t \in Threads :
    LET c == lastEmit[t] IN
    c.op \in EmissionOps =>
      /\ (c.level >= c.thr) <=> (NumWritten(c) = 1)
      /\ (c.level < c.thr) => (\A s \in Sinks : c.written[s] = <<>>)
      /\ (c.level >= c.thr) => Len(c.written[loggers[c.recv].output]) = 1

\* C1 witness: a Warn call on a WARN-threshold logger (L = T) has written its line
C1_Witness ==
  \E t \in Threads :
    /\ lastEmit[t].op = "Warn"
    /\ lastEmit[t].thr = WARN
    /\ NumWritten(lastEmit[t]) = 1

\* C2: derivation never changes the receiver's fields mapping: while and after
\* WithField/WithFields/WithContext runs on R, R's mapping is what it was at the
\* call, the derived logger's mapping is R's plus the additions, a logger made
\* by New has no fields, and every line a logger wrote shows exactly its own
\* fields.
C2_ReceiverUnchanged ==
  /\ \A t \in Threads :
       frame[t].op \in DeriveOps => Fields(frame[t].recv) = frame[t].before
  /\ \A l \in published :
       IF origin[l].op = "New"
         THEN Fields(l) = EmptyMap
         ELSE /\ Fields(origin[l].src) = origin[l].before
              /\ Fields(l) = [k \in (DOMAIN origin[l].before) \cup (DOMAIN origin[l].adds) |->
                                IF k \in DOMAIN origin[l].adds THEN origin[l].adds[k]
                                ELSE origin[l].before[k]]
  /\ \A w \in AllWrites : LineFields(w.bytes[1]) = ValueTexts(Fields(w.logger))

\* C2 witness: a logger with an added field was derived from R, and R wrote a
\* line in a call made after that derivation had returned
C2_Witness ==
  \E l \in published :
    /\ origin[l].op \in DeriveOps
    /\ DOMAIN origin[l].adds # {}
    /\ \E w \in AllWrites : w.logger = origin[l].src /\ w.seq > origin[l].ret

\* the maps a thread is still to write, and to read, in the call it executes
PendingWrites(t) ==
  CASE pc[t] = "clone_copy" ->
         IF (DOMAIN maps[loggers[frame[t].recv].fields]) \ frame[t].copied # {}
           THEN {frame[t].newFields} ELSE {}
    [] pc[t] = "set" ->
         IF (DOMAIN frame[t].adds) \ frame[t].done # {}
           THEN {loggers[frame[t].newLogger].fields} ELSE {}
    [] OTHER -> {}

PendingReads(t) ==
  CASE pc[t] = "clone_copy" -> {loggers[frame[t].recv].fields}
    [] pc[t] = "log_entry" -> {loggers[frame[t].recv].fields}
    [] pc[t] = "log_write" -> {frame[t].entry.Fields}
    [] OTHER -> {}

\* C3: with threads deriving from and emitting through shared loggers, no thread
\* writes a map that another thread reads or writes in its running call, no
\* thread writes the map of a logger already returned to callers, and no two
\* loggers hold the same map.
C3_NoFieldsConflict ==
  /\ \A t \in Threads, u \in Threads :
       t # u => PendingWrites(t) \cap (PendingReads(u) \cup PendingWrites(u)) = {}
  /\ \A t \in Threads, l \in published : loggers[l].fields \notin PendingWrites(t)
  /\ \A l1 \in DOMAIN loggers, l2 \in DOMAIN loggers :
       l1 # l2 => loggers[l1].fields # loggers[l2].fields

\* C3 witness: one thread is writing an addition into its clone of R while
\* another thread is copying or rendering R's non-empty fields
C3_Witness ==
  \E t \in Threads, u \in Threads :
    /\ t # u
    /\ pc[t] = "set"
    /\ PendingWrites(t) # {}
    /\ pc[u] \in {"clone_copy", "log_write"}
    /\ frame[u].recv = frame[t].recv
    /\ Fields(frame[t].recv) # EmptyMap

\* C4: the record's status_code is the code of the handler's FIRST WriteHeader
\* call, and 200 if the handler made none.
C4_FirstStatus ==
  \A t \in Threads :
    LET r == lastReq[t] IN
    Logged(r) =>
      LET codes == WHCodes(r.performed) IN
      /\ "status_code" \in DOMAIN LineFields(RequestLine(r))
      /\ LineFields(RequestLine(r))["status_code"] =
           FormatValue(IntVal(IF codes = <<>> THEN 200 ELSE codes[1]))

\* C4 witness: a handler called WriteHeader with two different codes and the
\* record shows the second
C4_Witness ==
  \E t \in Threads :
    LET r == lastReq[t] IN
    /\ Logged(r)
    /\ Len(WHCodes(r.performed)) = 2
    /\ WHCodes(r.performed)[1] # WHCodes(r.performed)[2]
    /\ LineFields(RequestLine(r))["status_code"] = FormatValue(IntVal(WHCodes(r.performed)[2]))

\* C5: when the handler calls WriteHeader exactly once, with S, the record's
\* status_code is S; when it never calls WriteHeader (it writes a body, sets
\* headers, or does nothing) the record's status_code is 200.
C5_SingleStatus ==
  \A t \in Threads :
    LET r == lastReq[t] IN
    Logged(r) =>
      LET codes == WHCodes(r.performed)
          shown == LineFields(RequestLine(r))
      IN /\ "status_code" \in DOMAIN shown
         /\ Len(codes) = 1 => shown["status_code"] = FormatValue(IntVal(codes[1]))
         /\ Len(codes) = 0 => shown["status_code"] = FormatValue(IntVal(200))

\* C5 witness: a handler whose only WriteHeader call was WriteHeader(404) has
\* its record written
C5_Witness ==
  \E t \in Threads :
    LET r == lastReq[t] IN
    /\ Logged(r)
    /\ WHCodes(r.performed) = <<404>>
    /\ LineFields(RequestLine(r))["status_code"] = FormatValue(IntVal(404))

\* C6 as stated: every request served through the middleware (its handler has
\* returned) has exactly one INFO record, written after the handler returned,
\* with the six fields, and the middleware's logger keeps its fields.
C6_OneRecordPerRequest ==
  \A t \in Threads :
    LET r == lastReq[t] IN
    r.outcome = "returned" =>
      /\ Len(RequestLines(r)) = 1
      /\ \A s \in Sinks : r.during[s] = <<>>
      /\ LineLevel(RequestLine(r)) = LevelString(INFO)
      /\ HTTPKeys \subseteq DOMAIN LineFields(RequestLine(r))
      /\ Fields(r.logger) = r.before

\* C6: a request whose handler returns gets exactly one record if the logger's
\* threshold is DEBUG or INFO and none if it is higher; a request whose handler
\* panics gets none.  The record is INFO "HTTP request", goes to the logger's
\* sink, is written after the handler returned (nothing is written while the
\* handler runs), and shows the logger's own fields overlaid with method, url,
\* remote_addr, user_agent, status_code and duration.  The middleware's logger
\* keeps its fields mapping.
C6_OneRecordIfEnabled ==
  \A t \in Threads :
    /\ pc[t] = "handler" => \A s \in Sinks : Delta(sinks, http[t].mark)[s] = <<>>
    /\ http[t].outcome = "running" => Fields(http[t].logger) = http[t].before
    /\ LET r == lastReq[t] IN
       /\ r.outcome = "panicked" => RequestLines(r) = <<>>
       /\ r.outcome \in {"returned", "panicked"} =>
            /\ \A s \in Sinks : r.during[s] = <<>>
            /\ Fields(r.logger) = r.before
       /\ r.outcome = "returned" =>
            IF r.thr <= INFO
              THEN /\ Len(RequestLines(r)) = 1
                   /\ Len(r.written[loggers[r.logger].output]) = 1
                   /\ RequestLines(r)[1].seq = r.seq
                   /\ LineLevel(RequestLine(r)) = LevelString(INFO)
                   /\ LineMessage(RequestLine(r)) = <<"HTTP request">>
                   /\ LET adds == RequestFields(r.req, r.statusCode) IN
                      /\ DOMAIN adds = HTTPKeys
                      /\ LineFields(RequestLine(r)) =
                           [k \in (DOMAIN r.before) \cup HTTPKeys |->
                              IF k \in HTTPKeys THEN FormatValue(adds[k])
                              ELSE FormatValue(r.before[k])]
              ELSE RequestLines(r) = <<>>

\* C6 witness: a request's handler has returned and its one record is written,
\* by a middleware logger that has a field of its own
C6_Witness ==
  \E t \in Threads :
    LET r == lastReq[t] IN
    /\ Logged(r)
    /\ r.thr <= INFO
    /\ r.before # EmptyMap
    /\ HTTPKeys \subseteq DOMAIN LineFields(RequestLine(r))

\* C7: the status codes, header mutations and body bytes that reach the
\* server's writer are those the handler produces when called on that writer
\* directly, and the handler is invoked once, with the request the middleware
\* received.
C7_Observational ==
  \A t \in Threads :
    LET r == lastReq[t] IN
    r.outcome \in {"returned", "panicked"} =>
      /\ Response(r.reached) = Response(DirectRun(r.script, r.flusher))
      /\ r.runs = 1
      /\ r.handlerReq = r.req

\* C7 witness: a handler that streams when its writer is an http.Flusher has
\* returned, and what reached the server's writer is not what it sends it directly
C7_Witness ==
  \E t \in Threads :
    LET r == lastReq[t] IN
    /\ r.outcome = "returned"
    /\ r.flusher
    /\ r.runs = 1
    /\ Response(r.reached) # Response(DirectRun(r.script, r.flusher))

\* the encoding formatEntry gives a line under a format, when the fields serialise
EncodingOf(format) ==
  CASE format = JSONFormat -> "json" [] format = TextFormat -> "text" [] OTHER -> "raw"

\* C11: the global slot holds the Logger of the last SetGlobalLogger call (the
\* NewDefault one before any); GetGlobalLogger returns it; a global emission
\* runs on it, is filtered by its threshold, rendered in its format and written
\* to its sink and to no other; a global derivation derives from it.
C11_GlobalSlot ==
  /\ defaultLogger = Installed
  /\ \A t \in Threads :
       LET r == result[t]
           c == lastEmit[t]
       IN /\ r.op = "GetGlobalLogger" => r.logger = r.slot
          /\ (frame[t].outer = "global" \/ (frame[t].op \in DeriveOps /\ frame[t].seq = r.seq))
               => frame[t].recv = r.slot
          /\ (r.op \in EmissionOps /\ c.seq = r.seq) =>
               /\ c.recv = r.slot
               /\ c.thr = loggers[r.slot].level
               /\ (NumWritten(c) = 1) <=> (c.level >= loggers[r.slot].level)
               /\ \A s \in Sinks : s # loggers[r.slot].output => c.written[s] = <<>>
               /\ \A i \in DOMAIN c.written[loggers[r.slot].output] :
                    LET w == c.written[loggers[r.slot].output][i] IN
                    /\ w.logger = r.slot
                    /\ w.bytes[1].enc = EncodingOf(loggers[r.slot].format)
          /\ r.op \in DeriveOps =>
               \A l \in published : origin[l].seq = r.seq => origin[l].src = r.slot

\* C11 witness: a second Logger was installed over an installed one, and a
\* global emission after that was written by it
C11_Witness ==
  /\ Len(installs) >= 2
  /\ installs[Len(installs)] # installs[Len(installs) - 1]
  /\ \E t \in Threads :
       /\ result[t].op \in EmissionOps
       /\ lastEmit[t].seq = result[t].seq
       /\ result[t].slot = installs[Len(installs)]
       /\ NumWritten(lastEmit[t]) = 1

\* the line an INFO call with the message renders on logger l, called from ConcStack
InfoLine(l, message) ==
  formatEntry(loggers[l].format,
              [Timestamp |-> "ts", Level |-> LevelString(INFO), Message |-> message,
               Fields |-> loggers[l].fields,
               Caller |-> IF loggers[l].level = DEBUG
                            THEN getCaller(loggers[l].callerSkip, StackAt(443, ConcStack))
                            ELSE <<>>],
              Fields(l))

\* how often x occurs in a sequence
Count(seq, x) == Cardinality({i \in DOMAIN seq : seq[i] = x})

\* C12: when the threads' INFO calls on the shared logger have all returned,
\* the sink's content is exactly N complete lines for the N calls that passed
\* the threshold: it ends with a terminator, and every call's rendered record
\* is a line of it as often as the call was made, in whatever order the
\* Writes arrived.
C12_WholeLines ==
  (\A t \in Threads : pc[t] = "idle") =>
    LET content == Lines(Content(sinks[loggers[SharedLogger].output]))
        expected == [i \in DOMAIN emitted |->
                       LineBytes(InfoLine(emitted[i].logger, emitted[i].message))]
    IN /\ content.rest = <<>>
       /\ Len(content.lines) = Len(emitted)
       /\ loggers[SharedLogger].level <= INFO => Len(emitted) = ncalls
       /\ \A i \in DOMAIN expected :
            Count(content.lines, expected[i]) = Count(expected, expected[i])

\* C12 witness: two threads were inside INFO calls on the shared logger at the
\* same time, both have returned, and the sink holds their two lines
C12_Witness ==
  /\ \A t \in Threads : pc[t] = "idle" /\ lastEmit[t].op = "Info"
  /\ \E t \in Threads, u \in Threads :
       /\ t # u
       /\ lastEmit[t].seq < lastEmit[u].seq
       /\ \E w \in AllWrites : w.seq = lastEmit[u].seq
       /\ LET out == sinks[loggers[SharedLogger].output] IN
          \E i \in DOMAIN out, j \in DOMAIN out :
            i < j /\ out[i].seq = lastEmit[u].seq /\ out[j].seq = lastEmit[t].seq
  /\ Len(Lines(Content(sinks[loggers[SharedLogger].output])).lines) >= 2

\* the Writes logger l made, in the order its sink received them
WritesOf(l) == SelectSeq(sinks[loggers[l].output], LAMBDA w : w.logger = l)

\* the calls on logger l that passed the threshold check, in call order
CallsOf(l) == SelectSeq(emitted, LAMBDA e : e.logger = l)

\* C13: with one calling thread, the i-th Write a logger's sink received from
\* it is the record of its i-th non-dropped call (same call, level and
\* message); there is one Write per such call once the call has returned, and
\* the Writes in a sink are in call order.
C13_WriteOrder ==
  /\ \A l \in DOMAIN loggers :
       LET ws == WritesOf(l)
           cs == CallsOf(l)
       IN /\ Len(ws) <= Len(cs)
          /\ Len(cs) <= Len(ws) + 1
          /\ (\A t \in Threads : pc[t] \in {"idle", "exit", "exited"}) => Len(ws) = Len(cs)
          /\ \A i \in DOMAIN ws :
               /\ ws[i].seq = cs[i].seq
               /\ LineLevel(ws[i].bytes[1]) = LevelString(cs[i].level)
               /\ LineMessage(ws[i].bytes[1]) = cs[i].message
               /\ WriteBytes(ws[i])[Len(WriteBytes(ws[i]))] = Newline
  /\ \A s \in Sinks : \A i \in DOMAIN sinks[s], j \in DOMAIN sinks[s] :
       i < j => sinks[s][i].seq < sinks[s][j].seq

\* C13 witness: a logger's sink holds two of its records, of different levels,
\* and a call the threshold dropped was made between them
C13_Witness ==
  \E l \in DOMAIN loggers :
    /\ Len(WritesOf(l)) = 2
    /\ WritesOf(l)[2].seq = WritesOf(l)[1].seq + 2
    /\ LineLevel(WritesOf(l)[1].bytes[1]) # LineLevel(WritesOf(l)[2].bytes[1])
    /\ \E t \in Threads : lastEmit[t].seq = WritesOf(l)[2].seq
    /\ Len(emitted) = 2

\* C14: the bytes of every Write hold exactly one line terminator, and it is
\* the last byte, whatever the format, the message and the field values.
C14_OneLinePerRecord ==
  \A w \in AllWrites :
    LET bytes == WriteBytes(w) IN
    /\ CountNewlines(bytes) = 1
    /\ bytes[Len(bytes)] = Newline

\* C14 witness: a text-format logger has written a record whose message has a
\* line break inside, and the Write holds two terminators
C14_Witness ==
  \E w \in AllWrites :
    /\ w.bytes[1].enc = "text"
    /\ loggers[w.logger].format = TextFormat
    /\ Newline \in {LineMessage(w.bytes[1])[i] : i \in DOMAIN LineMessage(w.bytes[1])}
    /\ CountNewlines(WriteBytes(w)) = 2

\* sub occurs in bytes as a run of consecutive pieces
Contains(bytes, sub) ==
  \E i \in 1..(Len(bytes) - Len(sub) + 1) : SubSeq(bytes, i, i + Len(sub) - 1) = sub

\* C15: every call that passed the threshold check and has returned left
\* exactly one Write, which holds the level name and the message (escaped when
\* the line is JSON); a JSON-format logger whose fields do not serialise writes
\* the text rendering of the record.
C15_NoRenderingDrop ==
  \A i \in DOMAIN emitted :
    LET e == emitted[i]
        ws == {w \in AllWrites : w.seq = e.seq}
    IN (\A t \in Threads : frame[t].seq # e.seq) =>
         /\ Cardinality(ws) = 1
         /\ \A w \in ws :
              LET line == w.bytes[1]
                  bytes == WriteBytes(w)
              IN /\ w.logger = e.logger
                 /\ Contains(bytes, <<LevelString(e.level)>>)
                 /\ Contains(bytes, IF line.enc = "json"
                                      THEN [j \in DOMAIN e.message |-> JSONEscape(e.message[j])]
                                      ELSE e.message)
                 /\ (loggers[w.logger].format = JSONFormat
                     /\ \E k \in DOMAIN Fields(w.logger) : ~Marshalable(Fields(w.logger)[k]))
                      => line = TextLine([Timestamp |-> "ts", Level |-> LevelString(e.level),
                                          Message |-> e.message, Fields |-> loggers[w.logger].fields,
                                          Caller |-> IF e.level >= ERROR
                                                       THEN getCaller(loggers[w.logger].callerSkip,
                                                                      StackAt(453, ConcStack))
                                                       ELSE <<>>],
                                         Fields(w.logger))

\* C15 witness: a JSON-format logger with a channel among its fields has
\* written a record, as a text line
C15_Witness ==
  \E w \in AllWrites :
    /\ loggers[w.logger].format = JSONFormat
    /\ \E k \in DOMAIN Fields(w.logger) : ~Marshalable(Fields(w.logger)[k])
    /\ w.bytes[1].enc = "text"
    /\ Contains(WriteBytes(w), <<LevelString(INFO)>>)

\* C16: the step in which a Write fails ends the emission call normally: the
\* call returns to its caller, the Write was handed to the sink, and no Logger
\* and no fields map changes; and an emission that passes the threshold on a
\* logger whose sink has failed before goes on to its Write.
C16_WriteErrorIgnored ==
  [][\A t \in Threads :
       LET l == frame[t].recv IN
       /\ (pc[t] = "log_write" /\ pc'[t] # "log_write"
           /\ WriteError(loggers[l].output) # "nil") =>
            /\ pc'[t] = "idle"
            /\ lastEmit'[t].seq = frame[t].seq
            /\ lastEmit'[t].status = "returned"
            /\ Len(sinks'[loggers[l].output]) = Len(sinks[loggers[l].output]) + 1
            /\ loggers' = loggers
            /\ maps' = maps
       /\ (pc[t] = "idle" /\ pc'[t] # "idle" /\ frame'[t].op \in EmissionOps
           /\ frame'[t].level >= loggers[frame'[t].recv].level) =>
            pc'[t] = "log_entry"
       /\ (pc[t] = "log_entry" /\ pc'[t] # "log_entry") => pc'[t] = "log_write"]_vars

\* C16 witness: a logger's failing sink was handed two Writes by two calls, and
\* the second call has returned
C16_Witness ==
  \E t \in Threads :
    /\ Len(sinks[Broken]) = 2
    /\ sinks[Broken][1].logger = sinks[Broken][2].logger
    /\ sinks[Broken][1].seq < sinks[Broken][2].seq
    /\ lastEmit[t].seq = sinks[Broken][2].seq
    /\ lastEmit[t].status = "returned"
    /\ pc[t] = "idle"

\* a and b are the same letter, in whatever case
SameLetter(a, b) ==
  \/ a = b
  \/ \E j \in DOMAIN LowerChars : {a, b} = {LowerChars[j], UpperChars[j]}

\* text is word, case ignored
FoldEq(text, word) ==
  /\ Len(text) = Len(word)
  /\ \A i \in DOMAIN text : SameLetter(text[i], word[i])

\* C17: the parsers are total with the documented defaults: whatever the text,
\* parseLogLevel gives the level the text names ignoring case ("warn" and
\* "warning" both WARN) and INFO for any other text, the empty one included;
\* parseLogFormat gives Text for "text" and "plain", JSON for "json" and for
\* any other text.
C17_ParsersTotal ==
  /\ parse.level # -1 =>
       /\ parse.level \in DEBUG..FATAL
       /\ parse.level =
            CASE FoldEq(parse.text, <<"d","e","b","u","g">>) -> DEBUG
              [] FoldEq(parse.text, <<"w","a","r","n">>) -> WARN
              [] FoldEq(parse.text, <<"w","a","r","n","i","n","g">>) -> WARN
              [] FoldEq(parse.text, <<"e","r","r","o","r">>) -> ERROR
              [] FoldEq(parse.text, <<"f","a","t","a","l">>) -> FATAL
              [] OTHER -> INFO
  /\ parse.format # -1 =>
       /\ parse.format \in {TextFormat, JSONFormat}
       /\ parse.format =
            CASE FoldEq(parse.text, <<"t","e","x","t">>) -> TextFormat
              [] FoldEq(parse.text, <<"p","l","a","i","n">>) -> TextFormat
              [] OTHER -> JSONFormat

\* C17 witness: "warning" in mixed case was parsed to WARN, and as a format to
\* the default
C17_Witness ==
  /\ FoldEq(parse.text, <<"w","a","r","n","i","n","g">>)
  /\ parse.text # ToUpper(parse.text)
  /\ parse.text # ToLower(parse.text)
  /\ parse.level = WARN
  /\ parse.format = JSONFormat

\* C18: a Write on the adapter is one INFO call on the wrapped logger whose
\* message is the text given, unchanged ('%' included); the Write returns the
\* length of the slice and no error, whether the record was written or the
\* threshold dropped it.
C18_AdapterForwards ==
  \A t \in Threads :
    LET r == result[t]
        c == lastEmit[t]
    IN (r.op = "Write" /\ pc[t] = "idle") =>
         /\ r.n = r.slot
         /\ r.err = "nil"
         /\ c.seq = r.seq
         /\ c.op = "Info"
         /\ c.level = INFO
         /\ c.recv = r.logger
         /\ (NumWritten(c) = 1) <=> (INFO >= c.thr)
         /\ NumWritten(c) <= 1
         /\ \A i \in DOMAIN c.written[loggers[r.logger].output] :
              LET line == c.written[loggers[r.logger].output][i].bytes[1] IN
              /\ LineLevel(line) = LevelString(INFO)
              /\ LineMessage(line) = <<r.p>>

\* C18 witness: the adapter was handed a text with '%' in it, the record was
\* written with that text as its message, and the Write has returned
C18_Witness ==
  \E t \in Threads :
    /\ result[t].op = "Write"
    /\ pc[t] = "idle"
    /\ result[t].p = "100%d\n"
    /\ result[t].n = 6
    /\ NumWritten(lastEmit[t]) = 1
    /\ LineMessage(lastEmit[t].written[loggers[result[t].logger].output][1].bytes[1])
         = <<"100%d\n">>

\* the exchanges whose response is complete
Answered == {t \in Threads : web[t].stage = "done"}

\* C19 as stated: every response to a request on a path that has a route
\* carries the three CORS headers; OPTIONS is answered 200 by the CORS
\* middleware alone; for every other method the route handler runs exactly once.
C19_CORSOnEveryRoute ==
  \A t \in Answered :
    LET x == web[t] IN
    x.path \in RoutePaths =>
      /\ CORSHeaders \subseteq x.headers
      /\ x.method = "OPTIONS" =>
           (x.status = 200 /\ x.by = "corsMiddleware" /\ x.logging = 0 /\ x.handler = 0)
      /\ x.method /= "OPTIONS" => x.handler = 1

\* C19: every response to a request that matches a route (its path has a
\* route and its method is GET or OPTIONS) carries the three CORS headers;
\* OPTIONS is answered 200 by the CORS middleware alone, the logging
\* middleware and the route handler not being entered; GET enters the route
\* handler exactly once; a request with another method on a path that has a
\* route is answered 405 by the router and enters neither middleware nor handler.
C19_CORSOnMatchedRoute ==
  \A t \in Answered :
    LET x == web[t] IN
    /\ Matches(x.method, x.path) =>
         /\ CORSHeaders \subseteq x.headers
         /\ x.cors = 1
         /\ x.method = "OPTIONS" =>
              (x.status = 200 /\ x.by = "corsMiddleware" /\ x.logging = 0 /\ x.handler = 0)
         /\ x.method /= "OPTIONS" =>
              (x.handler = 1 /\ x.logging = 1 /\ x.status = 200
               /\ x.by = RouteHandler(x.path))
    /\ (x.path \in RoutePaths /\ x.method \notin RouteMethods) =>
         (x.status = 405 /\ x.by = "router" /\ x.cors = 0 /\ x.logging = 0 /\ x.handler = 0)

\* C19 witness: a preflight request and a GET were both answered
C19_Witness ==
  /\ web["t1"].stage = "done"
  /\ web["t1"].method = "OPTIONS"
  /\ web["t1"].path = "/api/v1/status"
  /\ web["t1"].status = 200
  /\ CORSHeaders \subseteq web["t1"].headers
  /\ app.log = <<(<<"GET", "/health">>)>>

\* the lines App.Logger printed
Printed(line) == \E i \in DOMAIN app.log : app.log[i] = line

\* what C20 says apart from the error of Shutdown: NewApp leaves Server unset;
\* a Shutdown of a serving server makes Start return ErrServerClosed; that
\* error is not reported as a failure to start; "Server exited" is printed
\* only after Shutdown returned nil
Lifecycle ==
  /\ (app.made /\ app.start \in {"none", "called"}) => app.server = "unset"
  /\ app.shutAt = "serving" =>
       /\ app.server = "closed"
       /\ app.start \in {"serving", "returned", "done"}
       /\ app.start \in {"returned", "done"} => app.startErr = "ErrServerClosed"
  /\ app.startErr = "ErrServerClosed" =>
       /\ ~Printed(<<"Server failed to start">>)
       /\ "Server failed to start" \notin app.failed
  /\ Printed(<<"Server exited">>) => (app.shut = "returned" /\ app.shutErr = "nil")

\* C20 as stated: once Start serves, Shutdown returns without error (and the
\* rest of the lifecycle).
C20_ShutdownNoError ==
  /\ Lifecycle
  /\ (app.shutAt = "serving" /\ app.shut = "returned") => app.shutErr = "nil"

\* C20: NewApp leaves Server unset; once Start serves, Shutdown returns nil
\* when no request is in flight any more at one of its polls, and the error of
\* its context when the context is done while requests are still in flight;
\* in both cases Start returns ErrServerClosed, which the callers do not take
\* for a failure to start; main prints "Server exited" only after Shutdown
\* returned nil.
C20_Lifecycle ==
  /\ Lifecycle
  /\ (app.shutAt = "serving" /\ app.shut = "returned") =>
       \/ app.shutErr = "nil" /\ app.conns = 0 /\ app.polled = 0
       \/ app.shutErr = "deadline exceeded" /\ app.ctx = "expired" /\ app.polled > 0

\* C20 witness: main shut a serving server down with nothing in flight, Start
\* returned ErrServerClosed to the goroutine, and main printed "Server exited"
C20_Witness ==
  /\ app.harness = "main"
  /\ app.shutAt = "serving"
  /\ app.shutErr = "nil"
  /\ app.start = "done"
  /\ app.startErr = "ErrServerClosed"
  /\ Printed(<<"Server exited">>)
  /\ app.exit = 0

\* the line loggingMiddleware prints for an exchange: method and path
LineOf(x) == <<x.method, x.path>>

\* every step that makes App.Logger's output grow appends exactly the line of
\* one exchange whose route handler has returned, and ends that exchange
PrintsAfterHandler ==
  app.log' /= app.log =>
    \E t \in Threads :
      /\ web[t].stage = "logged"
      /\ web[t].handler = 1
      /\ web[t].status = 200
      /\ app.log' = Append(app.log, LineOf(web[t]))
      /\ web'[t].stage = "done"
      /\ \A u \in Threads \ {t} : web'[u] = web[u]

\* C21 as stated: every answered request with a method other than OPTIONS on a
\* path that has a route got exactly one line with its method and path.
C21_OneLinePerRequest ==
  \A t \in Answered :
    (web[t].path \in RoutePaths /\ web[t].method /= "OPTIONS") =>
      (web[t].lines = 1 /\ Printed(LineOf(web[t])))

\* C21: every request with method GET on a path that has a route gets exactly
\* one line with its method and path in App.Logger's output, printed after its
\* route handler has written the response and never before; requests served
\* at the same time each get a line of their own; a request the router
\* answers itself (another method, or no such path) and an OPTIONS request get
\* no line.
C21_OneLinePerGet ==
  [][/\ PrintsAfterHandler
     /\ \A t \in Threads :
          LET x == web'[t] IN
          /\ x.stage \in {"idle", "cors", "logging", "handler", "logged"} => x.lines = 0
          /\ x.stage = "done" =>
               IF Matches(x.method, x.path) /\ x.method /= "OPTIONS"
                 THEN x.lines = 1 /\ x.handler = 1
                      /\ \E i \in DOMAIN app.log' : app.log'[i] = LineOf(x)
                 ELSE x.lines = 0
     /\ Len(app.log') >= Cardinality({t \in Threads :
                                       web'[t].stage = "done" /\ web'[t].lines = 1})]_vars

\* C21 witness: two requests were in the chain together and each has its line
C21_Witness ==
  /\ web["t1"].stage = "done" /\ web["t2"].stage = "done"
  /\ web["t1"].method = "GET" /\ web["t2"].method = "GET"
  /\ web["t1"].path = "/health" /\ web["t2"].path = "/"
  /\ web["t2"].seq = 1
  /\ app.log = <<(<<"GET", "/health">>), (<<"GET", "/">>)>>

\* C22: Shutdown never reads App.Server before Start has assigned it: whenever
\* Shutdown has entered a.Server.Shutdown, the pointer it read was the server
\* Start installed, in every interleaving of the goroutine and main.
C22_ShutdownAfterAssign ==
  app.shut /= "none" => (app.shutAt /= "unset" /\ app.start \notin {"none", "called"})

\* C22 witness: the signal arrived before the goroutine had assigned a.Server;
\* Shutdown called a method of the nil server and the process died of the panic
C22_Witness ==
  /\ app.harness = "main"
  /\ app.shut = "panic"
  /\ app.shutAt = "unset"
  /\ app.start = "called"
  /\ app.exit = 2
  /\ Printed(<<"Shutting down server...">>)
  /\ ~Printed(<<"Starting">>)

\* the attributes of a Logger that clone copies by value
Attributes(l) == <<l.level, l.format, l.output, l.callerSkip>>

\* how many of threshold, format and sink differ between two Logger values
Differences(a, b) ==
  (IF a.level = b.level THEN 0 ELSE 1) + (IF a.format = b.format THEN 0 ELSE 1)
    + (IF a.output = b.output THEN 0 ELSE 1)

\* C23: a derived logger gets the threshold, format, sink and callerSkip its
\* source has at the derivation, and no logger that exists is changed by it;
\* a step that changes a logger (a SetLevel, SetFormat or SetOutput) changes
\* exactly one of threshold, format and sink of that one logger, keeps its
\* callerSkip and its fields, changes no other logger (neither the one it was
\* derived from nor those derived from it) and no fields mapping.
C23_SnapshotAndFrame ==
  [][/\ Len(loggers') >= Len(loggers)
     /\ Len(loggers') > Len(loggers) =>
          /\ Len(loggers') = Len(loggers) + 1
          /\ \A l \in DOMAIN loggers : loggers'[l] = loggers[l]
          /\ LET d == Len(loggers') IN
             /\ origin'[d].src \in DOMAIN loggers
             /\ Attributes(loggers'[d]) = Attributes(loggers[origin'[d].src])
             /\ loggers'[d].fields /= loggers[origin'[d].src].fields
     /\ \A l \in DOMAIN loggers :
          loggers'[l] /= loggers[l] =>
            /\ Differences(loggers'[l], loggers[l]) = 1
            /\ loggers'[l].callerSkip = loggers[l].callerSkip
            /\ loggers'[l].fields = loggers[l].fields
            /\ \A k \in (DOMAIN loggers) \ {l} : loggers'[k] = loggers[k]
            /\ Len(loggers') = Len(loggers)
            /\ maps' = maps]_vars

\* C23 witness: logger 3 was derived from logger 2, and after setters were
\* called on each of them they differ in threshold and in sink
C23_Witness ==
  /\ Len(loggers) = 3
  /\ 3 \in published
  /\ origin[3].src = 2
  /\ loggers[2].level = ERROR /\ loggers[3].level = INFO
  /\ loggers[2].output = Buf /\ loggers[3].output = Stdout
  /\ loggers[2].format = loggers[3].format
  /\ ncalls = 3

\* C8: Fatal never returns: its frame stays on the thread until os.Exit, no step
\* is taken once the process has exited, the exit status is non-zero, and at the
\* exit the line has been written exactly if FATAL passed the threshold.
C8_FatalTerminates ==
  [][/\ ~exited
     /\ \A t \in Threads :
          frame[t].op = "Fatal" =>
            /\ frame'[t].op = "Fatal"
            /\ pc'[t] \in {"log_entry", "log_write", "exit", "exited"}
     /\ exited' =>
          /\ exitCode' # 0
          /\ \E t \in Threads :
               /\ pc'[t] = "exited"
               /\ lastEmit'[t].op = "Fatal"
               /\ (NumWritten(lastEmit'[t]) = 1) <=> (FATAL >= lastEmit'[t].thr)
               /\ NumWritten(lastEmit'[t]) <= 1]_vars

\* C8 witness: the process has exited from a Fatal whose record the threshold dropped
C8_Witness ==
  /\ exited
  /\ \E t \in Threads :
       /\ lastEmit[t].op = "Fatal"
       /\ lastEmit[t].thr > FATAL
       /\ NumWritten(lastEmit[t]) = 0

\* C9: a written record has a caller exactly if its level is ERROR or FATAL or
\* the logger's threshold is DEBUG, and the stack has a frame at depth
\* 3 + callerSkip (the caller's stack is deeper than callerSkip).
C9_CallerPresence ==
  \A t \in Threads :
    LET c == lastEmit[t] IN
    (c.op \in EmissionOps /\ NumWritten(c) = 1) =>
      LET w == c.written[loggers[c.recv].output][1] IN
      LineHasCaller(w.bytes[1]) <=>
        ((c.level >= ERROR \/ c.thr2 = DEBUG) /\ c.skip < c.depth)

\* C9 witness: an Info record of a DEBUG-threshold logger carries a caller
C9_Witness ==
  \E t \in Threads :
    LET c == lastEmit[t] IN
    /\ c.op = "Info"
    /\ c.thr2 = DEBUG
    /\ NumWritten(c) = 1
    /\ LineHasCaller(c.written[loggers[c.recv].output][1].bytes[1])

Absent == [kind |-> "absent", n |-> 0, s |-> ""]

\* the value the last derivation that set k gave it, on the chain that made l
RECURSIVE LastSet(_, _)
LastSet(l, k) ==
  IF origin[l].op = "New" THEN Absent
  ELSE IF k \in DOMAIN origin[l].adds THEN origin[l].adds[k]
  ELSE LastSet(origin[l].src, k)

AllKeys == FieldKeys \cup ContextKeys \cup {"b"}

\* C10: in a chain of derivations a key has the value of the last derivation
\* that set it, a key no derivation set is absent, and the lines the logger
\* writes show those values.
C10_LastSetWins ==
  /\ \A l \in published, k \in AllKeys :
       IF LastSet(l, k) = Absent
         THEN k \notin DOMAIN Fields(l)
         ELSE k \in DOMAIN Fields(l) /\ Fields(l)[k] = LastSet(l, k)
  /\ \A w \in AllWrites, k \in AllKeys :
       LET shown == LineFields(w.bytes[1]) IN
       IF LastSet(w.logger, k) = Absent
         THEN k \notin DOMAIN shown
         ELSE k \in DOMAIN shown /\ shown[k] = FormatValue(LastSet(w.logger, k))

\* C10 witness: WithFields({a: v1}) then WithField(a, v2), v1 # v2, and the
\* resulting logger has written a line
C10_Witness ==
  \E l \in published :
    /\ origin[l].op = "WithField"
    /\ origin[origin[l].src].op = "WithFields"
    /\ \E k \in DOMAIN origin[l].adds :
         /\ k \in DOMAIN origin[origin[l].src].adds
         /\ origin[origin[l].src].adds[k] # origin[l].adds[k]
    /\ \E w \in AllWrites : w.logger = l

====
